---- MODULE Spec2Model ----
(***************************************************************************)
(* QBO-Dashboard: the report extractors (extractAccountValue,              *)
(* extractProfitLossSummary, extractExpenseBreakdown) and the monthly      *)
(* trend aggregator (generateMonthlyTrendData) of the dashboard routes.    *)
(*                                                                         *)
(* JavaScript values are tagged records: the field t holds the type and    *)
(* one further field the payload.  Strings are sequences of one-character  *)
(* strings, so that toLowerCase, includes, replace and parseFloat are      *)
(* computed.  Numbers are integers counting hundredths (12,345.67 is       *)
(* 1234567); parseFloat keeps two decimals.                                *)
(***************************************************************************)
EXTENDS Integers, Sequences, FiniteSets, TLC

----------------------------------------------------------------------------
(* JavaScript values *)

JsUndefined == [t |-> "undefined"]
JsNull == [t |-> "null"]
JsStr(s) == [t |-> "string", s |-> s]
JsNum(n) == [t |-> "number", nan |-> FALSE, n |-> n]
JsNaN == [t |-> "number", nan |-> TRUE, n |-> 0]
JsArr(a) == [t |-> "array", a |-> a]
JsObj(o) == [t |-> "object", o |-> o]

\* v == null || v === undefined: a property read on such a value raises TypeError
Nullish(v) == v.t \in {"undefined", "null"}

\* ToBoolean(v)
Truthy(v) ==
  CASE v.t \in {"undefined", "null"} -> FALSE
    [] v.t = "string" -> v.s # <<>>
    [] v.t = "number" -> ~v.nan /\ v.n # 0
    [] OTHER -> TRUE

\* a || b
Or(a, b) == IF Truthy(a) THEN a ELSE b

\* v.k for a v that is not nullish (a missing property reads as undefined)
Get(v, k) == IF v.t = "object" /\ k \in DOMAIN v.o THEN v.o[k] ELSE JsUndefined

\* v?.k
OptGet(v, k) == IF Nullish(v) THEN JsUndefined ELSE Get(v, k)

\* v[i] with a 0-based index, for a v that is not nullish
Index(v, i) ==
  CASE v.t = "array" -> IF i + 1 \in DOMAIN v.a THEN v.a[i + 1] ELSE JsUndefined
    [] v.t = "string" -> IF i + 1 \in DOMAIN v.s THEN JsStr(<<v.s[i + 1]>>) ELSE JsUndefined
    [] OTHER -> JsUndefined

IsArray(v) == v.t = "array"

\* isNaN(v) for the values a cell holds: undefined and objects convert to NaN,
\* null to 0 (arrays and booleans are not among the cell values modelled)
IsNaN(v) ==
  CASE v.t = "number" -> v.nan
    [] v.t = "null" -> FALSE
    [] OTHER -> TRUE

----------------------------------------------------------------------------
(* Strings *)

UpperToLower == [A |-> "a", B |-> "b", C |-> "c", D |-> "d", E |-> "e", F |-> "f", G |-> "g", H |-> "h", I |-> "i", J |-> "j", K |-> "k", L |-> "l", M |-> "m", N |-> "n", O |-> "o", P |-> "p", Q |-> "q", R |-> "r", S |-> "s", T |-> "t", U |-> "u", V |-> "v", W |-> "w", X |-> "x", Y |-> "y", Z |-> "z"]

\* s.toLowerCase()
ToLowerCase(s) ==
  [i \in 1..Len(s) |-> IF s[i] \in DOMAIN UpperToLower THEN UpperToLower[s[i]] ELSE s[i]]

\* hay.includes(needle)
Includes(hay, needle) ==
  \E i \in 0..(Len(hay) - Len(needle)) : SubSeq(hay, i + 1, i + Len(needle)) = needle

IsComma(c) == c = ","
NotComma(c) == ~IsComma(c)

\* s.replace(/,/g, '')
StripCommas(s) == SelectSeq(s, NotComma)

Digits == <<"0", "1", "2", "3", "4", "5", "6", "7", "8", "9">>
IsDigit(c) == \E d \in 1..10 : Digits[d] = c
DigitValue(c) == (CHOOSE d \in 1..10 : Digits[d] = c) - 1

\* the first position at or after i that holds no digit (Len(s) + 1 when none)
DigitsEnd(s, i) ==
  LET stops == {j \in i..Len(s) : ~IsDigit(s[j])}
  IN IF stops = {} THEN Len(s) + 1 ELSE CHOOSE j \in stops : \A k \in stops : j <= k

\* the value of the digits s[i..j-1] (0 for an empty run)
RECURSIVE DigitsValue(_, _, _)
DigitsValue(s, i, j) ==
  IF j <= i THEN 0 ELSE DigitsValue(s, i, j - 1) * 10 + DigitValue(s[j - 1])

\* the first position that holds no blank (Len(s) + 1 when none)
SkipBlanks(s) ==
  LET solid == {j \in 1..Len(s) : s[j] # " "}
  IN IF solid = {} THEN Len(s) + 1 ELSE CHOOSE j \in solid : \A k \in solid : j <= k

\* the sign read at position b, and the position after it
HasSign(s, b) == b <= Len(s) /\ s[b] \in {"-", "+"}
SignAt(s, b) == IF HasSign(s, b) /\ s[b] = "-" THEN -1 ELSE 1
AfterSign(s, b) == IF HasSign(s, b) THEN b + 1 ELSE b

\* the end of the fraction that follows the integer digits ending before e1: e1
\* itself when no "." stands there
FractionEnd(s, e1) == IF e1 <= Len(s) /\ s[e1] = "." THEN DigitsEnd(s, e1 + 1) ELSE e1

\* the hundredths of the fraction digits s[e1+1..e2-1]: two decimals are kept
Hundredths(s, e1, e2) ==
  (IF e2 - e1 >= 2 THEN DigitValue(s[e1 + 1]) * 10 ELSE 0)
  + (IF e2 - e1 >= 3 THEN DigitValue(s[e1 + 2]) ELSE 0)

\* the number with sign, integer digits s[p..e1-1] and fraction s[e1+1..e2-1];
\* NaN when no digit is read
ReadFloat(s, sign, p, e1, e2) ==
  IF e1 = p /\ e2 - e1 <= 1 THEN JsNaN
  ELSE JsNum(sign * (DigitsValue(s, p, e1) * 100 + Hundredths(s, e1, e2)))

ReadFloatFrom(s, sign, p, e1) == ReadFloat(s, sign, p, e1, FractionEnd(s, e1))
ParseFloatAt(s, b) == ReadFloatFrom(s, SignAt(s, b), AfterSign(s, b), DigitsEnd(s, AfterSign(s, b)))

\* parseFloat(s): leading blanks, an optional sign, digits with an optional
\* fraction; NaN when no digit is read, the rest of the string is ignored.
\* (Exponents and "Infinity" are not among the amounts modelled.)
ParseFloat(s) == ParseFloatAt(s, SkipBlanks(s))

\* Math.abs(n)
Abs(n) == IF n < 0 THEN -n ELSE n

----------------------------------------------------------------------------
(* Numbers as the code holds them: IEEE 754 doubles.  A positive double is    *)
(* [m, e], standing for m * 2^e, with m the MANTISSA binary digits of the     *)
(* mantissa, lowest first, the highest being 1.  Division, multiplication and *)
(* addition round to the nearest double, ties to the even mantissa.  The      *)
(* arithmetic runs on natural numbers of any size, held as sequences of       *)
(* digits to the base LIMB, lowest first, without leading zeros.              *)

MANTISSA == 53
LIMB_BITS == 15
LIMB == 2 ^ LIMB_BITS

RECURSIVE NatLimbs(_)
NatLimbs(n) == IF n = 0 THEN <<>> ELSE <<n % LIMB>> \o NatLimbs(n \div LIMB)

\* a without its leading zeros
Trim(a) == SubSeq(a, 1, IF \E i \in DOMAIN a : a[i] # 0
                       THEN CHOOSE i \in DOMAIN a : a[i] # 0 /\ \A j \in (i + 1)..Len(a) : a[j] = 0
                       ELSE 0)

Limb(a, i) == IF i \in DOMAIN a THEN a[i] ELSE 0

RECURSIVE AddFrom(_, _, _, _)
AddDigit(a, b, i, sum) == <<sum % LIMB>> \o AddFrom(a, b, i + 1, sum \div LIMB)
AddFrom(a, b, i, carry) ==
  IF i > Len(a) /\ i > Len(b) THEN (IF carry = 0 THEN <<>> ELSE <<carry>>)
  ELSE AddDigit(a, b, i, Limb(a, i) + Limb(b, i) + carry)

AddNat(a, b) == AddFrom(a, b, 1, 0)

RECURSIVE SubFrom(_, _, _, _)
SubDigit(a, b, i, diff) ==
  <<(diff + LIMB) % LIMB>> \o SubFrom(a, b, i + 1, IF diff < 0 THEN 1 ELSE 0)
SubFrom(a, b, i, borrow) ==
  IF i > Len(a) THEN <<>> ELSE SubDigit(a, b, i, Limb(a, i) - Limb(b, i) - borrow)

\* a - b for a >= b
SubNat(a, b) == Trim(SubFrom(a, b, 1, 0))

LessNat(a, b) ==
  \/ Len(a) < Len(b)
  \/ /\ Len(a) = Len(b)
     /\ \E i \in 1..Len(a) : a[i] < b[i] /\ \A j \in (i + 1)..Len(a) : a[j] = b[j]

\* a * k for a k below LIMB
RECURSIVE MulFrom(_, _, _, _)
MulDigit(a, k, i, product) == <<product % LIMB>> \o MulFrom(a, k, i + 1, product \div LIMB)
MulFrom(a, k, i, carry) ==
  IF i > Len(a) THEN (IF carry = 0 THEN <<>> ELSE <<carry>>)
  ELSE MulDigit(a, k, i, a[i] * k + carry)

MulSmall(a, k) == MulFrom(a, k, 1, 0)

\* a * 2^k
ShiftLeft(a, k) ==
  IF a = <<>> THEN <<>>
  ELSE [i \in 1..(k \div LIMB_BITS) |-> 0] \o MulSmall(a, 2 ^ (k % LIMB_BITS))

\* the whole part of a / p for a p that divides LIMB
DivPow(a, p) == Trim([i \in 1..Len(a) |-> (a[i] \div p) + (Limb(a, i + 1) % p) * (LIMB \div p)])

\* the whole part of a / 2^k
ShiftRight(a, k) == DivPow(SubSeq(a, (k \div LIMB_BITS) + 1, Len(a)), 2 ^ (k % LIMB_BITS))

\* the number of binary digits of a, and its i-th binary digit from the lowest
Width(n) == CHOOSE w \in 1..LIMB_BITS : 2 ^ (w - 1) <= n /\ n < 2 ^ w
BitLen(a) == IF a = <<>> THEN 0 ELSE LIMB_BITS * (Len(a) - 1) + Width(a[Len(a)])
BitAt(a, i) == (Limb(a, ((i - 1) \div LIMB_BITS) + 1) \div (2 ^ ((i - 1) % LIMB_BITS))) % 2

\* the binary digits of a, lowest first, and the number of the binary digits bits
BitsOf(a) == [i \in 1..BitLen(a) |-> BitAt(a, i)]
RECURSIVE LimbValue(_, _, _)
LimbValue(bits, from, to) ==
  IF to < from \/ from > Len(bits) THEN 0
  ELSE bits[from] + 2 * LimbValue(bits, from + 1, to)
LimbsOf(bits) ==
  Trim([j \in 1..((Len(bits) + LIMB_BITS - 1) \div LIMB_BITS) |->
          LimbValue(bits, LIMB_BITS * (j - 1) + 1, LIMB_BITS * j)])

\* one step of the long division, with the remainder brought down so far
DivStep(D, r) ==
  IF LessNat(r, D) THEN [q |-> <<0>>, r |-> r] ELSE [q |-> <<1>>, r |-> SubNat(r, D)]

RECURSIVE DivDigits(_, _, _, _, _)

\* the quotient digits of two runs of steps, highest first
DivJoin(first, second) == [q |-> first.q \o second.q, r |-> second.r]

DivLower(N, D, hi, lo, first) == DivJoin(first, DivDigits(N, D, hi, lo, first.r))

\* the binary long division of N by D over the binary digits hi down to lo of N,
\* from the remainder r of the digits above: the quotient digits and the remainder
DivDigits(N, D, hi, lo, r) ==
  IF hi = lo THEN DivStep(D, AddNat(AddNat(r, r), IF BitAt(N, hi) = 1 THEN <<1>> ELSE <<>>))
  ELSE DivLower(N, D, ((hi + lo) \div 2), lo, DivDigits(N, D, hi, ((hi + lo) \div 2) + 1, r))

Reverse(a) == [i \in 1..Len(a) |-> a[Len(a) + 1 - i]]

\* the quotient as binary digits, lowest first, without leading zeros
DivTrimmed(Q) == [q |-> Trim(Reverse(Q.q)), r |-> Q.r]

\* N divided by D, for N >= D: the leading binary digits of N, one fewer than D
\* has, are less than D and start the remainder
DivBits(N, D, hi) == DivTrimmed(DivDigits(N, D, hi, 1, ShiftRight(N, hi)))
DivNat(N, D) == DivBits(N, D, BitLen(N) - BitLen(D) + 1)

\* m + 1 on binary digits: the digits below the lowest 0 turn 0 and it turns 1
Increment(m, zero) == [i \in 1..Len(m) |-> IF i < zero THEN 0 ELSE IF i = zero THEN 1 ELSE m[i]]

\* the mantissa m, or the next one when the digits dropped below it are more
\* than half a unit, or half a unit with m odd; e is the exponent of m
RoundUp(m, e, up) ==
  IF ~up THEN [m |-> m, e |-> e]
  ELSE IF \A i \in DOMAIN m : m[i] = 1
       THEN [m |-> [i \in 1..Len(m) |-> IF i = Len(m) THEN 1 ELSE 0], e |-> e + 1]
       ELSE [m |-> Increment(m, CHOOSE z \in DOMAIN m : m[z] = 0 /\ \A i \in 1..(z - 1) : m[i] = 1),
             e |-> e]

\* the double nearest to (q + r/D) * 2^e, for the binary digits q of a quotient
\* of more than MANTISSA digits and the remainder r of its division
RoundQuotient(q, r, e, drop) ==
  RoundUp(SubSeq(q, drop + 1, Len(q)), e + drop,
          /\ q[drop] = 1
          /\ \/ r # <<>>
             \/ \E i \in 1..(drop - 1) : q[i] = 1
             \/ q[drop + 1] = 1)

RoundDivided(Q, e) == RoundQuotient(Q.q, Q.r, e, Len(Q.q) - MANTISSA)

\* the double nearest to (N / D) * 2^e: the division is carried to one or two
\* binary digits more than the mantissa holds
RoundShifted(N, D, e, k) ==
  IF k >= 0 THEN RoundDivided(DivNat(ShiftLeft(N, k), D), e - k)
  ELSE RoundDivided(DivNat(N, ShiftLeft(D, -k)), e - k)

RoundNat(N, D, e) == RoundShifted(N, D, e, MANTISSA + 1 - (BitLen(N) - BitLen(D)))

\* the double of the decimal amount hundredths / 100 that parseFloat reads,
\* hundredths > 0
DoubleOf(hundredths) == RoundNat(NatLimbs(hundredths), NatLimbs(100), 0)

\* the double 0
ZERO == [m |-> <<>>, e |-> 0]

ToDouble(hundredths) == IF hundredths = 0 THEN ZERO ELSE DoubleOf(hundredths)

\* x / y, for a y other than 0
DivDouble(x, y) == IF x = ZERO THEN ZERO ELSE RoundNat(LimbsOf(x.m), LimbsOf(y.m), x.e - y.e)

\* x * 100
Times100(x) == IF x = ZERO THEN ZERO ELSE RoundNat(MulSmall(LimbsOf(x.m), 100), <<1>>, x.e)

\* x + y, for the lower exponent e of the two
AddAligned(x, y, e) ==
  RoundNat(AddNat(ShiftLeft(LimbsOf(x.m), x.e - e), ShiftLeft(LimbsOf(y.m), y.e - e)), <<1>>, e)

AddDouble(x, y) == AddAligned(x, y, IF x.e < y.e THEN x.e ELSE y.e)

Plus(x, y) == IF x = ZERO THEN y ELSE IF y = ZERO THEN x ELSE AddDouble(x, y)

\* x <= y
LeqAligned(x, y, e) ==
  ~LessNat(ShiftLeft(LimbsOf(y.m), y.e - e), ShiftLeft(LimbsOf(x.m), x.e - e))
LeqDouble(x, y) == LeqAligned(x, y, IF x.e < y.e THEN x.e ELSE y.e)

----------------------------------------------------------------------------
(* Labels *)

TOTAL_INCOME == <<"T", "o", "t", "a", "l", " ", "I", "n", "c", "o", "m", "e">>
TOTAL_REVENUE == <<"T", "o", "t", "a", "l", " ", "R", "e", "v", "e", "n", "u", "e">>
TOTAL_EXPENSES == <<"T", "o", "t", "a", "l", " ", "E", "x", "p", "e", "n", "s", "e", "s">>
TOTAL_COGS == <<"T", "o", "t", "a", "l", " ", "C", "o", "s", "t", " ", "o", "f", " ", "G", "o", "o", "d", "s", " ", "S", "o", "l", "d">>
TOTAL_OTHER_EXPENSES == <<"T", "o", "t", "a", "l", " ", "O", "t", "h", "e", "r", " ", "E", "x", "p", "e", "n", "s", "e", "s">>
PROFIT == <<"P", "R", "O", "F", "I", "T">>
TYPE_DATA == <<"D", "a", "t", "a">>

----------------------------------------------------------------------------
(* Completions: a call returns a value or raises *)

Returned(v) == [thrown |-> FALSE, v |-> v]
Thrown == [thrown |-> TRUE, v |-> JsUndefined]

\* ColData[0]?.value || ''
CellName(colData) == Or(OptGet(Index(colData, 0), "value"), JsStr(<<>>))

\* ColData[1]?.value || '0'
CellValue(colData) == Or(OptGet(Index(colData, 1), "value"), JsStr(<<"0">>))

\* typeof value === 'string' ? parseFloat(value.replace(/,/g, '')) : value
NumericValue(value) ==
  IF value.t = "string" THEN ParseFloat(StripCommas(value.s)) ELSE value

\* the nested rows of a row, in either format; null when it has none
NestedRows(row) ==
  LET Rows == Get(row, "Rows")
  IN IF IsArray(Rows) THEN Rows
     ELSE IF Truthy(Rows) /\ Truthy(Get(Rows, "Row"))
          THEN IF IsArray(Get(Rows, "Row")) THEN Get(Rows, "Row") ELSE JsArr(<<Get(Rows, "Row")>>)
          ELSE JsNull

----------------------------------------------------------------------------
(* extractAccountValue (data route) *)

MAX_DEPTH == 10

\* accountNames.some(accountName => name.toLowerCase().includes(accountName.toLowerCase()))
\* for a name that is a string
MatchesAccount(name, accountNames) ==
  \E a \in 1..Len(accountNames) :
    Includes(ToLowerCase(name), ToLowerCase(accountNames[a]))

\* The test of one labelled row, with its label and its numeric value: what
\* the block does: "return" the amount, go on to what is "next", or "raise".
\* name.toLowerCase() raises for a label that is not a string.
MatchCell(name, numericValue, accountNames) ==
  IF accountNames = <<>> THEN [k |-> "next", v |-> JsUndefined]
  ELSE IF name.t # "string" THEN [k |-> "raise", v |-> JsUndefined]
  ELSE IF MatchesAccount(name.s, accountNames) /\ ~IsNaN(numericValue)
       THEN [k |-> "return", v |-> numericValue]
       ELSE [k |-> "next", v |-> JsUndefined]

\* the test of a ColData (a Data row's, or a Summary's)
MatchRow(colData, accountNames) ==
  MatchCell(CellName(colData), NumericValue(CellValue(colData)), accountNames)

\* if (row.type === 'Data' && row.ColData) { .. }
MatchData(row, accountNames) ==
  IF Get(row, "type") = JsStr(TYPE_DATA) /\ Truthy(Get(row, "ColData"))
  THEN MatchRow(Get(row, "ColData"), accountNames)
  ELSE [k |-> "next", v |-> JsUndefined]

\* if (row.Summary && row.Summary.ColData) { .. }
MatchSummary(row, accountNames) ==
  IF Truthy(Get(row, "Summary")) /\ Truthy(Get(Get(row, "Summary"), "ColData"))
  THEN MatchRow(Get(Get(row, "Summary"), "ColData"), accountNames)
  ELSE [k |-> "next", v |-> JsUndefined]

\* a cap one level lower down: what TooDeep is told apart from
TooDeepBelowEleven(depth) == depth > MAX_DEPTH + 1

\* if (depth > 10) return 0
TooDeep(depth) == depth > MAX_DEPTH

RECURSIVE searchRows(_, _, _, _)

\* a search that ends with the result of the first nested rows, 0 or not: what
\* searchNested is told apart from
searchNestedFirst(rows, i, depth, accountNames, nestedResult) ==
  IF nestedResult.thrown THEN Thrown ELSE nestedResult

\* the end of the loop body for a row with nested rows, given the result of the
\* search of them: it is returned unless it is 0
searchNested(rows, i, depth, accountNames, nestedResult) ==
  IF nestedResult.thrown THEN Thrown
  ELSE IF nestedResult.v # JsNum(0) THEN nestedResult
  ELSE searchRows(rows, i + 1, depth, accountNames)

\* the loop body for a row, given the outcome of its Data test, of its Summary
\* test, and its nested rows
searchRow(rows, i, depth, accountNames, data, summary, nestedRows) ==
  IF data.k = "raise" THEN Thrown
  ELSE IF data.k = "return" THEN Returned(data.v)
  ELSE IF summary.k = "raise" THEN Thrown
  ELSE IF summary.k = "return" THEN Returned(summary.v)
  ELSE IF Truthy(nestedRows)
       THEN searchNested(rows, i, depth, accountNames,
                         searchRows(nestedRows.a, 1, depth + 1, accountNames))
       ELSE searchRows(rows, i + 1, depth, accountNames)

\* searchRows(rows, depth), from the i-th row of its loop on
searchRows(rows, i, depth, accountNames) ==
  IF TooDeep(depth) \/ i > Len(rows) THEN Returned(JsNum(0))
  ELSE IF Nullish(rows[i]) THEN Thrown
  ELSE searchRow(rows, i, depth, accountNames, MatchData(rows[i], accountNames),
                 MatchSummary(rows[i], accountNames), NestedRows(rows[i]))

extractAccountValue(report, accountNames) ==
  IF ~Truthy(OptGet(report, "Rows")) THEN Returned(JsNum(0))
  ELSE LET Rows == Get(report, "Rows")
           rowsToSearch == Or(Or(Get(Rows, "Row"), Rows), JsArr(<<>>))
       IN searchRows(IF IsArray(rowsToSearch) THEN rowsToSearch.a ELSE <<rowsToSearch>>,
                     1, 0, accountNames)

----------------------------------------------------------------------------
(* extractProfitLossSummary (monthly route) *)

NoSummary ==
  [revenue |-> 0, operatingExpenses |-> 0, costOfGoodsSold |-> 0, otherExpenses |-> 0, netProfit |-> 0]

\* the switch on the summary's name
SetSummaryField(result, name, n) ==
  CASE name = JsStr(TOTAL_INCOME) -> [result EXCEPT !.revenue = n]
    [] name = JsStr(TOTAL_EXPENSES) -> [result EXCEPT !.operatingExpenses = n]
    [] name = JsStr(TOTAL_COGS) -> [result EXCEPT !.costOfGoodsSold = n]
    [] name = JsStr(TOTAL_OTHER_EXPENSES) -> [result EXCEPT !.otherExpenses = n]
    [] name = JsStr(PROFIT) -> [result EXCEPT !.netProfit = n]
    [] OTHER -> result

\* the result after a summary named name with the numeric value numericValue
WithSummary(result, name, numericValue) ==
  IF ~IsNaN(numericValue) THEN SetSummaryField(result, name, numericValue.n) ELSE result

\* the result after the row: only a row with Summary.ColData counts
AfterSummaryRow(result, row) ==
  IF Truthy(Get(row, "Summary")) /\ Truthy(Get(Get(row, "Summary"), "ColData"))
  THEN WithSummary(result, CellName(Get(Get(row, "Summary"), "ColData")),
                   NumericValue(CellValue(Get(Get(row, "Summary"), "ColData"))))
  ELSE result

\* the loop over the top-level rows, from the i-th row on
RECURSIVE summaryLoop(_, _, _)
summaryLoop(rows, i, result) ==
  IF i > Len(rows) THEN Returned(result)
  ELSE IF Nullish(rows[i]) THEN Thrown
  ELSE summaryLoop(rows, i + 1, AfterSummaryRow(result, rows[i]))

extractProfitLossSummary(report) ==
  LET Row == OptGet(OptGet(report, "Rows"), "Row")
  IN IF ~Truthy(Row) THEN Returned(NoSummary)
     ELSE summaryLoop(IF IsArray(Row) THEN Row.a ELSE <<Row>>, 1, NoSummary)

----------------------------------------------------------------------------
(* extractExpenseBreakdown: the four variants *)

HDR_EXPENSES == <<"E", "X", "P", "E", "N", "S", "E", "S">>
HDR_OTHER_EXPENSES == <<"O", "T", "H", "E", "R", " ", "E", "X", "P", "E", "N", "S", "E", "S">>
HDR_COGS_LONG == <<"C", "O", "S", "T", " ", "O", "F", " ", "G", "O", "O", "D", "S", " ", "S", "O", "L", "D">>
HDR_COST_OF_SALES == <<"C", "O", "S", "T", " ", "O", "F", " ", "S", "A", "L", "E", "S">>
HDR_COGS == <<"C", "O", "G", "S">>
SUB_EXPENSE == <<"e", "x", "p", "e", "n", "s", "e">>
SUB_COGS == <<"c", "o", "s", "t", " ", "o", "f", " ", "g", "o", "o", "d", "s", " ", "s", "o", "l", "d">>
SUB_TOTAL == <<"t", "o", "t", "a", "l">>

TOP_N == 10

\* a filter that keeps every named entry: what ExpenseEntry is told apart from
ExpenseEntryUnfiltered(name, numericValue) ==
  IF ~Truthy(name) THEN [k |-> "skip", e |-> [name |-> <<>>, value |-> 0]]
  ELSE IF name.t # "string" THEN [k |-> "raise", e |-> [name |-> <<>>, value |-> 0]]
  ELSE IF IsNaN(numericValue) THEN [k |-> "push", e |-> [name |-> name.s, value |-> 0]]
  ELSE [k |-> "push", e |-> [name |-> name.s, value |-> Abs(numericValue.n)]]

\* The filter of one entry, with its label and its numeric value: "push" the
\* entry e, "skip" it, or "raise" (name.toLowerCase() on a truthy label that is
\* not a string).
ExpenseEntry(name, numericValue) ==
  IF ~Truthy(name) THEN [k |-> "skip", e |-> [name |-> <<>>, value |-> 0]]
  ELSE IF name.t # "string" THEN [k |-> "raise", e |-> [name |-> <<>>, value |-> 0]]
  ELSE IF Includes(ToLowerCase(name.s), SUB_TOTAL) THEN [k |-> "skip", e |-> [name |-> <<>>, value |-> 0]]
  ELSE IF ~IsNaN(numericValue) /\ numericValue.n > 0
       THEN [k |-> "push", e |-> [name |-> name.s, value |-> Abs(numericValue.n)]]
       ELSE [k |-> "skip", e |-> [name |-> <<>>, value |-> 0]]

\* the filter of one Data row with ColData
ExpenseRow(row) ==
  ExpenseEntry(CellName(Get(row, "ColData")), NumericValue(CellValue(Get(row, "ColData"))))

IsDataRow(row) == Get(row, "type") = JsStr(TYPE_DATA) /\ Truthy(Get(row, "ColData"))

\* The substrings that make a Header an expense section: the data route looks for
\* 'expense' and 'cost of goods sold', the export route for 'expense' alone.
SectionWords(variant) == IF variant = "data" THEN {SUB_EXPENSE, SUB_COGS} ELSE {SUB_EXPENSE}

\* the test of a Header's first cell
IsExpenseHeader(cell, variant) ==
  IF Nullish(cell) THEN [raise |-> FALSE, is |-> FALSE]
  ELSE IF Get(cell, "value").t # "string" THEN [raise |-> TRUE, is |-> FALSE]
  ELSE [raise |-> FALSE,
        is |-> \E w \in SectionWords(variant) : Includes(ToLowerCase(Get(cell, "value").s), w)]

\* row.Header && row.Header.ColData && (row.Header.ColData[0]?.value.toLowerCase().includes(..) || ..)
\* ?. guards a missing cell only: a cell without a string value raises.
IsExpenseSection(row, variant) ==
  IF ~Truthy(Get(row, "Header")) \/ ~Truthy(Get(Get(row, "Header"), "ColData"))
  THEN [raise |-> FALSE, is |-> FALSE]
  ELSE IsExpenseHeader(Index(Get(Get(row, "Header"), "ColData"), 0), variant)

\* The nested rows searchExpenseRows descends into: both formats in the data
\* route, the bare array alone in the export route.
NestedExpenseRows(row, variant) ==
  IF variant = "data" THEN NestedRows(row)
  ELSE IF Truthy(Get(row, "Rows")) /\ IsArray(Get(row, "Rows")) THEN Get(row, "Rows") ELSE JsNull

\* for (const row of v): the rows iterated, or a raise for a value that is not iterable
Iterate(v) ==
  CASE v.t = "array" -> Returned(v.a)
    [] v.t = "string" -> Returned([i \in 1..Len(v.s) |-> JsStr(<<v.s[i]>>)])
    [] OTHER -> Thrown

RECURSIVE searchExpenseRows(_, _, _, _, _)

\* the end of the loop body for a row with nested rows, given the result of
\* the walk of them
walkNested(rows, i, inExpenseSection, variant, nested) ==
  IF nested.thrown THEN nested
  ELSE searchExpenseRows(rows, i + 1, inExpenseSection, nested.v, variant)

\* the rest of the loop body, with the expenses after the row's own entry
walkRest(rows, i, inExpenseSection, pushed, variant, isExpenseSection, nestedRows) ==
  IF ~Truthy(nestedRows)
  THEN searchExpenseRows(rows, i + 1, inExpenseSection, pushed, variant)
  ELSE walkNested(rows, i, inExpenseSection, variant,
                  searchExpenseRows(nestedRows.a, 1, isExpenseSection.is \/ inExpenseSection,
                                    pushed, variant))

\* the loop body for a row, given the test of its Header and the filter of its
\* entry
walkRow(rows, i, inExpenseSection, expenses, variant, isExpenseSection, kept) ==
  IF isExpenseSection.raise \/ kept.k = "raise" THEN [thrown |-> TRUE, v |-> expenses]
  ELSE walkRest(rows, i, inExpenseSection,
                IF kept.k = "push" THEN Append(expenses, kept.e) ELSE expenses,
                variant, isExpenseSection, NestedExpenseRows(rows[i], variant))

\* searchExpenseRows(rows, inExpenseSection), from the i-th row of its loop on;
\* expenses is the accumulator of the enclosing call
searchExpenseRows(rows, i, inExpenseSection, expenses, variant) ==
  IF i > Len(rows) THEN [thrown |-> FALSE, v |-> expenses]
  ELSE IF Nullish(rows[i]) THEN [thrown |-> TRUE, v |-> expenses]
  ELSE walkRow(rows, i, inExpenseSection, expenses, variant,
               IsExpenseSection(rows[i], variant),
               IF IsDataRow(rows[i]) /\ inExpenseSection THEN ExpenseRow(rows[i])
               ELSE [k |-> "skip", e |-> [name |-> <<>>, value |-> 0]])

\* The headers findExpenseSections compares with ===: the general route's five, the
\* previous-period route's two.
SectionHeaders(variant) ==
  IF variant = "general"
  THEN {HDR_EXPENSES, HDR_OTHER_EXPENSES, HDR_COGS_LONG, HDR_COST_OF_SALES, HDR_COGS}
  ELSE {HDR_EXPENSES, HDR_OTHER_EXPENSES}

\* the row itself when its Header's first cell is one of the headers
OwnSection(row, variant) ==
  IF Truthy(Get(row, "Header")) /\ Truthy(Get(Get(row, "Header"), "ColData"))
     /\ \E h \in SectionHeaders(variant) :
          OptGet(Index(Get(Get(row, "Header"), "ColData"), 0), "value") = JsStr(h)
  THEN <<row>> ELSE <<>>

\* the sections of a row, of its nested rows and of the rows after it
JoinSections(own, nested, rest) ==
  IF nested.thrown THEN nested
  ELSE IF rest.thrown THEN rest
  ELSE [thrown |-> FALSE, v |-> own \o nested.v \o rest.v]

RECURSIVE findExpenseSections(_, _, _)

\* the sections found in the nested rows of a row, none when it has no nested rows
nestedSections(nestedRows, variant) ==
  IF Truthy(nestedRows) THEN findExpenseSections(nestedRows.a, 1, variant)
  ELSE [thrown |-> FALSE, v |-> <<>>]

\* findExpenseSections(rows), from the i-th row of its loop on
findExpenseSections(rows, i, variant) ==
  IF i > Len(rows) THEN [thrown |-> FALSE, v |-> <<>>]
  ELSE IF Nullish(rows[i]) THEN [thrown |-> TRUE, v |-> <<>>]
  ELSE JoinSections(OwnSection(rows[i], variant),
                    nestedSections(NestedRows(rows[i]), variant),
                    findExpenseSections(rows, i + 1, variant))

\* the expenses after one row of a section
AfterSectionRow(expenses, kept) ==
  IF kept.k = "raise" THEN [thrown |-> TRUE, v |-> expenses]
  ELSE [thrown |-> FALSE, v |-> IF kept.k = "push" THEN Append(expenses, kept.e) ELSE expenses]

RECURSIVE sectionRows(_, _, _)

sectionRowsFrom(expenseRows, i, after) ==
  IF after.thrown THEN after ELSE sectionRows(expenseRows, i + 1, after.v)

\* the loop over one section's direct rows, from the i-th row on
sectionRows(expenseRows, i, expenses) ==
  IF i > Len(expenseRows) THEN [thrown |-> FALSE, v |-> expenses]
  ELSE IF Nullish(expenseRows[i]) THEN [thrown |-> TRUE, v |-> expenses]
  ELSE sectionRowsFrom(expenseRows, i,
                       AfterSectionRow(expenses,
                                       IF IsDataRow(expenseRows[i]) THEN ExpenseRow(expenseRows[i])
                                       ELSE [k |-> "skip", e |-> [name |-> <<>>, value |-> 0]]))

RECURSIVE sectionsLoop(_, _, _)

sectionsLoopFrom(sections, i, one) ==
  IF one.thrown THEN one ELSE sectionsLoop(sections, i + 1, one.v)

\* section?.Rows?.Row || [], as the rows the loop runs over
SectionRowList(Row) ==
  IF ~Truthy(Row) THEN <<>> ELSE IF IsArray(Row) THEN Row.a ELSE <<Row>>

\* the loop over the sections found, from the i-th section on
sectionsLoop(sections, i, expenses) ==
  IF i > Len(sections) THEN [thrown |-> FALSE, v |-> expenses]
  ELSE sectionsLoopFrom(sections, i,
                        sectionRows(SectionRowList(OptGet(OptGet(sections[i], "Rows"), "Row")),
                                    1, expenses))

\* totalExpenses after the values collected are added to it one by one, each sum
\* rounded to a double
RECURSIVE TotalFrom(_, _, _)
TotalFrom(expenses, i, total) ==
  IF i > Len(expenses) THEN total
  ELSE TotalFrom(expenses, i + 1, Plus(total, ToDouble(expenses[i].value)))

TotalOf(expenses) == TotalFrom(expenses, 1, ZERO)

\* e inserted into a sequence sorted non-increasing by value, after its equals:
\* Array.prototype.sort is stable
RECURSIVE InsertByValue(_, _)
InsertByValue(sorted, e) ==
  IF sorted = <<>> THEN <<e>>
  ELSE IF e.value > sorted[1].value THEN <<e>> \o sorted
  ELSE <<sorted[1]>> \o InsertByValue(Tail(sorted), e)

\* the entries in the order they were collected: what SortByValue is told apart from
KeptOrder(es) == es

\* .sort((a, b) => b.value - a.value)
RECURSIVE SortByValue(_)
SortByValue(es) ==
  IF es = <<>> THEN <<>>
  ELSE InsertByValue(SortByValue(SubSeq(es, 1, Len(es) - 1)), es[Len(es)])

\* totalExpenses > 0 ? (expense.value / totalExpenses) * 100 : 0
Percentage(value, total) ==
  IF total = ZERO THEN ZERO ELSE Times100(DivDouble(ToDouble(value), total))

\* the entries with their percentages against total
WithPercentages(expenses, total) ==
  [i \in 1..Len(expenses) |->
    [name |-> expenses[i].name, value |-> expenses[i].value,
     percentage |-> Percentage(expenses[i].value, total)]]

\* .slice(0, 10)
TopN(sorted) == SubSeq(sorted, 1, IF Len(sorted) < TOP_N THEN Len(sorted) ELSE TOP_N)

\* percentages against the total of the entries that are left after the cut:
\* what Ranked is told apart from
RankedAfterCut(expenses) ==
  WithPercentages(TopN(SortByValue(expenses)), TotalOf(TopN(SortByValue(expenses))))

\* The tail of every variant: percentages against the total of all kept values,
\* sorted, the first TOP_N.
Ranked(expenses) == TopN(SortByValue(WithPercentages(expenses, TotalOf(expenses))))

\* the completion of a variant, given the completion of its collection
RankedOrThrown(collected) ==
  IF collected.thrown THEN Thrown ELSE Returned(Ranked(collected.v))

\* an array that still holds what an earlier call left in it: what NewExpenses
\* is told apart from
ExpensesLeft(left) == left

\* const expenses = [] and let totalExpenses = 0: every call starts with
\* accumulators of its own, whatever an earlier call left in its
NewExpenses(left) == <<>>

\* the walk of the rows handed to for..of, from the call's expenses
WalkOf(rows, variant, expenses) ==
  IF rows.thrown THEN rows ELSE searchExpenseRows(rows.v, 1, FALSE, expenses, variant)

\* the rows the data and the export route walk
WalkedRows(report) == Iterate(Or(Get(Get(report, "Rows"), "Row"), JsArr(<<>>)))

\* extractExpenseBreakdown of the data route ("data") and of the export route ("export")
extractExpenseBreakdownWalk(report, variant, expenses) ==
  IF ~Truthy(OptGet(report, "Rows")) THEN Returned(<<>>)
  ELSE RankedOrThrown(WalkOf(WalkedRows(report), variant, expenses))

\* the expenses of the sections found, from the call's expenses
CollectedOf(sections, expenses) ==
  IF sections.thrown THEN sections ELSE sectionsLoop(sections.v, 1, expenses)

\* findExpenseSections(report.Rows.Row), over an array or a single object
SectionsOf(Row, variant) ==
  findExpenseSections(IF IsArray(Row) THEN Row.a ELSE <<Row>>, 1, variant)

\* extractExpenseBreakdown of the general route ("general") and of the
\* previous-period route ("previous")
extractExpenseBreakdownSections(report, variant, expenses) ==
  IF ~Truthy(OptGet(OptGet(report, "Rows"), "Row")) THEN Returned(<<>>)
  ELSE RankedOrThrown(CollectedOf(SectionsOf(OptGet(OptGet(report, "Rows"), "Row"), variant),
                                  expenses))

\* a call of extractExpenseBreakdown whose accumulators start as expenses
extractExpenseBreakdown(report, variant, expenses) ==
  IF variant \in {"data", "export"} THEN extractExpenseBreakdownWalk(report, variant, expenses)
  ELSE extractExpenseBreakdownSections(report, variant, expenses)

\* the expenses array of such a call when it ends
ExpensesAfter(report, variant, expenses) ==
  IF variant \in {"data", "export"}
  THEN (IF ~Truthy(OptGet(report, "Rows")) THEN expenses
        ELSE WalkOf(WalkedRows(report), variant, expenses).v)
  ELSE (IF ~Truthy(OptGet(OptGet(report, "Rows"), "Row")) THEN expenses
        ELSE CollectedOf(SectionsOf(OptGet(OptGet(report, "Rows"), "Row"), variant), expenses).v)

----------------------------------------------------------------------------
(* Report trees given to the extractors *)

LBL_RENT == <<"R", "e", "n", "t">>
LBL_TOTAL_RENT == <<"T", "o", "t", "a", "l", " ", "R", "e", "n", "t">>
LBL_UPPER_TOTAL == <<"S", "U", "B", "T", "O", "T", "A", "L">>
LBL_UTILITIES == <<"U", "t", "i", "l", "i", "t", "i", "e", "s">>
LBL_INCOME_UPPER == <<"T", "O", "T", "A", "L", " ", "I", "N", "C", "O", "M", "E", " ", "A">>
HDR_INCOME == <<"I", "N", "C", "O", "M", "E">>
HDR_EXPENSES_MIXED == <<"O", "p", "e", "r", "a", "t", "i", "n", "g", " ", "E", "x", "p", "e", "n", "s", "e", "s">>
AMT_1000 == <<"1", ",", "0", "0", "0", ".", "0", "0">>
AMT_500 == <<"5", "0", "0">>
AMT_NEG == <<"-", "2", "0", "0", ".", "5", "0">>
AMT_ZERO == <<"0">>
AMT_BAD == <<"n", "/", "a">>
AMT_12345 == <<"1", "2", ",", "3", "4", "5", ".", "6", "7">>

Cell(v) == JsObj([value |-> v])
ColDataOf(name, amount) == JsArr(<<Cell(name), Cell(amount)>>)
DataRow(name, amount) == JsObj([type |-> JsStr(TYPE_DATA), ColData |-> ColDataOf(name, amount)])
SummaryRow(name, amount) == JsObj([Summary |-> JsObj([ColData |-> ColDataOf(name, amount)])])

\* the children of a node, as a bare array, wrapped under Row, or, for a single
\* child, as the child itself under Row
RowsOf(children, format) ==
  CASE format = "array" -> JsArr(children)
    [] format = "wrapped" -> JsObj([Row |-> JsArr(children)])
    [] format = "single" -> JsObj([Row |-> children[1]])

Group(children, format) == JsObj([Rows |-> RowsOf(children, format)])
Section(header, children, format) ==
  JsObj([Header |-> JsObj([ColData |-> JsArr(<<Cell(JsStr(header))>>)]),
         Rows |-> RowsOf(children, format)])
ReportOf(rows) == JsObj([Rows |-> RowsOf(rows, "wrapped")])

\* row below d levels of groups: in ReportOf(<<Chain(d, row, f)>>) it lies at depth d
RECURSIVE Chain(_, _, _)
Chain(d, row, format) ==
  IF d = 0 THEN row ELSE Group(<<Chain(d - 1, row, format)>>, format)

----------------------------------------------------------------------------
(* Dates: new Date(year, monthIndex, day), toISOString().split('T')[0] and    *)
(* toLocaleDateString('en-US', {month: 'short'}).  A date is the day number   *)
(* of its local calendar day (days since 1970-01-01) at local midnight, with  *)
(* the zone's getTimezoneOffset() in minutes (positive west of Greenwich).    *)

\* the time value of a Date is at most 8.64e15 ms (100,000,000 days) from the epoch
MAX_DAYS == 100000000

\* days from 1970-01-01 to the civil date y-m-d (proleptic Gregorian)
DaysFromCivil(y, m, d) ==
  LET yy == IF m <= 2 THEN y - 1 ELSE y
      era == yy \div 400
      yoe == yy - era * 400
      doy == ((153 * (IF m > 2 THEN m - 3 ELSE m + 9) + 2) \div 5) + d - 1
      doe == yoe * 365 + (yoe \div 4) - (yoe \div 100) + doy
  IN era * 146097 + doe - 719468

\* the civil date of a day number
CivilFromDays(days) ==
  LET z == days + 719468
      era == z \div 146097
      doe == z - era * 146097
      yoe == (doe - (doe \div 1460) + (doe \div 36524) - (doe \div 146096)) \div 365
      doy == doe - (365 * yoe + (yoe \div 4) - (yoe \div 100))
      mp == (5 * doy + 2) \div 153
      m == IF mp < 10 THEN mp + 3 ELSE mp - 9
  IN [y |-> yoe + era * 400 + (IF m <= 2 THEN 1 ELSE 0),
      m |-> m,
      d |-> doy - ((153 * mp + 2) \div 5) + 1]

\* new Date(year, monthIndex, day) in a zone with offset off: years 0..99 mean
\* 1900..1999, a monthIndex of 12 is January of the next year, day 0 the day
\* before the first; NaN, or a time value out of range, gives an Invalid Date
NewDate(year, monthIndex, day, off) ==
  LET yr == IF year.n \in 0..99 THEN 1900 + year.n ELSE year.n
      localDay == DaysFromCivil(yr + (monthIndex \div 12), (monthIndex % 12) + 1, 1) + day - 1
      inRange == \/ (localDay < MAX_DAYS /\ localDay > -MAX_DAYS)
                 \/ (localDay = MAX_DAYS /\ off <= 0)
                 \/ (localDay = -MAX_DAYS /\ off >= 0)
  IN IF year.nan THEN [valid |-> FALSE, day |-> 0, off |-> off]
     ELSE [valid |-> inRange, day |-> localDay, off |-> off]

\* date.toISOString().split('T')[0] of a valid date: the UTC calendar date of its
\* local midnight (toISOString raises RangeError on an Invalid Date)
ToISODate(date) == CivilFromDays(date.day + (date.off \div 1440))

MonthShort == <<"Jan", "Feb", "Mar", "Apr", "May", "Jun", "Jul", "Aug", "Sep", "Oct", "Nov", "Dec">>

\* date.toLocaleDateString('en-US', { month: 'short' }): the local month's name
ToLocaleMonthShort(date) == MonthShort[CivilFromDays(date.day).m]

\* an integer-valued number, or NaN (a year argument, a count of milliseconds)
IntOf(n) == [nan |-> FALSE, n |-> n]
IntNaN == [nan |-> TRUE, n |-> 0]

ReadInt(s, sign, p, e1) == IF e1 = p THEN IntNaN ELSE IntOf(sign * DigitsValue(s, p, e1))
ParseIntAt(s, b) == ReadInt(s, SignAt(s, b), AfterSign(s, b), DigitsEnd(s, AfterSign(s, b)))

\* parseInt(s): leading blanks, an optional sign, decimal digits; NaN when no digit is read
ParseInt(s) == ParseIntAt(s, SkipBlanks(s))

----------------------------------------------------------------------------
(* State *)

VARIABLES
  route,      \* the route whose generateMonthlyTrendData runs: "monthly", "data" ("none": no run)
  tz,         \* the server zone's getTimezoneOffset()
  year,       \* the year argument
  pc,         \* where the run stands: "call", "fetch", "retryWait", "retryFetch", "delay", "done"
  month,      \* the loop variable
  trendData,  \* the points pushed so far
  inflight,   \* the requests issued and not yet answered
  attempts,   \* the fetches issued for the current month
  retryAfter, \* the retry-after header of the 429 being handled
  timer,      \* the duration of the pending setTimeout, 0 when none is pending
  waits,      \* the durations of the timers that fired since the last response
  last,       \* how the month went whose point the last step pushed
  tally,      \* the fetches issued and the inter-call delays waited so far, when counted
  xReport,    \* the report tree handed to an extractor
  xCall,      \* the extractor called on it, with its arguments
  xRet,       \* its completion
  xExpenses,  \* the expenses array of extractExpenseBreakdown when the call started and now
  timeframe,  \* the timeframe argument of getPreviousPeriodData
  fromDate,   \* its fromDate argument
  previousRequest, \* the range whose report it requested
  previousData,    \* its completion
  request,    \* the HTTP request a route handler serves: its session and parameters
  step,       \* the await the handler stands at ("none": no handler runs)
  users,      \* the user table: a record per user id, or null
  tokens,     \* the token table: the stored token per user id, or null
  response,   \* the response the handler returned
  calls       \* the requests the handler issued to the accounting API

vars == <<route, tz, year, pc, month, trendData, inflight, attempts, retryAfter, timer,
          waits, last, tally, xReport, xCall, xRet, xExpenses, timeframe, fromDate, previousRequest,
          previousData, request, step, users, tokens, response, calls>>

trendVars == <<route, tz, year, pc, month, trendData, inflight, attempts, retryAfter, timer,
               waits, last, tally>>
extractVars == <<xReport, xCall, xRet, xExpenses>>
previousVars == <<timeframe, fromDate, previousRequest, previousData>>
handlerVars == <<request, step, users, tokens, response, calls>>

----------------------------------------------------------------------------
(* The environment of a trend run: the zone, the clock, the server *)

NowYear == 2024
TzOffsets == {-60, 300}

\* the year query parameter of the monthly route: absent, or its text
YearParams ==
  {JsNull, JsStr(<<"a", "b", "c">>), JsStr(<<"2", "7", "5", "7", "6", "0">>)}

\* the decimal digits of a natural number
RECURSIVE NatText(_)
NatText(n) == IF n < 10 THEN <<Digits[n + 1]>> ELSE NatText(n \div 10) \o <<Digits[(n % 10) + 1]>>

AmountText(n) == (IF n < 0 THEN <<"-">> ELSE <<>>) \o NatText(Abs(n)) \o <<".", "0", "0">>

\* The Profit and Loss report the server holds for a month: four sections with
\* their summaries; the income of February, June and October is negative.
ServerReport(m) ==
  ReportOf(<<
    JsObj([Header |-> JsObj([ColData |-> JsArr(<<Cell(JsStr(HDR_INCOME))>>)]),
           Rows |-> RowsOf(<<DataRow(JsStr(LBL_RENT), JsStr(AmountText(m * 1000)))>>, "wrapped"),
           Summary |-> JsObj([ColData |-> ColDataOf(JsStr(TOTAL_INCOME),
                                JsStr(AmountText(IF m % 4 = 2 THEN -(m * 1000) ELSE m * 1000)))])]),
    SummaryRow(JsStr(TOTAL_COGS), JsStr(AmountText(m * 10))),
    SummaryRow(JsStr(TOTAL_EXPENSES), JsStr(AmountText(m * 100))),
    SummaryRow(JsStr(TOTAL_OTHER_EXPENSES), JsStr(AmountText(m)))>>)

\* What a successful response carries: the month's report, a report whose Row
\* holds null, no json and no body, or a body that is not JSON.
Bodies == {"server", "nullRow", "emptyBody", "badBody"}

\* retry-after headers of a 429: none, empty, seconds, or an HTTP-date; secs is
\* the delay the server asks for
NoHeader == [value |-> JsUndefined, secs |-> 0]
RetryAfterHeaders ==
  {NoHeader,
   [value |-> JsStr(<<>>), secs |-> 0],
   [value |-> JsStr(<<"0">>), secs |-> 0],
   [value |-> JsStr(<<"2">>), secs |-> 2],
   [value |-> JsStr(<<"W", "e", "d", ",", " ", "2", "1", " ", "O", "c", "t">>), secs |-> 2]}

\* the errors makeApiCall rejects with: a response with a status, or none
Errors ==
  {[response |-> TRUE, status |-> 429, retryAfter |-> h] : h \in RetryAfterHeaders}
  \cup {[response |-> TRUE, status |-> 500, retryAfter |-> NoHeader],
        [response |-> FALSE, status |-> 0, retryAfter |-> NoHeader]}

----------------------------------------------------------------------------
(* generateMonthlyTrendData *)

MONTHS == 12
INTER_CALL_DELAY == 125
DEFAULT_RETRY_AFTER == <<"1">>

\* parseInt(searchParams.get('year') || new Date().getFullYear().toString())
YearArgument(param) ==
  IF Truthy(param) THEN ParseInt(param.s) ELSE ParseInt(NatText(NowYear))

monthStart(m) == NewDate(year, m - 1, 1, tz)
monthEnd(m) == NewDate(year, m, 0, tz)

\* monthStart.toISOString() or monthEnd.toISOString() raises RangeError
DatesRaise(m) == ~monthStart(m).valid \/ ~monthEnd(m).valid

\* the request for month m: the report from fromDate to toDate
Request(m) ==
  [month |-> m, fromDate |-> ToISODate(monthStart(m)), toDate |-> ToISODate(monthEnd(m))]

\* a fallback that is not zero: what ZeroPoint is told apart from
NonZeroPoint(m) == [month |-> ToLocaleMonthShort(monthStart(m)), revenue |-> 1, expenses |-> 0]

\* { month, revenue: 0, expenses: 0 } of the catch blocks
ZeroPoint(m) == [month |-> ToLocaleMonthShort(monthStart(m)), revenue |-> 0, expenses |-> 0]

\* response.json || JSON.parse(response.body || '{}')
ProfitLoss(m, body) ==
  CASE body = "server" -> Returned(ServerReport(m))
    [] body = "nullRow" -> Returned(ReportOf(<<JsNull>>))
    [] body = "emptyBody" -> Returned(JsObj(<<>>))
    [] body = "badBody" -> Thrown

\* revenue: Math.abs(summary.revenue), expenses: Math.abs(operatingExpenses +
\* costOfGoodsSold + otherExpenses) of the monthly route
SummaryAmounts(summary) ==
  IF summary.thrown THEN Thrown
  ELSE Returned([revenue |-> Abs(summary.v.revenue),
                 expenses |-> Abs(summary.v.operatingExpenses + summary.v.costOfGoodsSold
                                  + summary.v.otherExpenses)])

\* revenue: Math.abs(revenue), expenses: Math.abs(operatingExpenses + costOfGoodsSold)
\* of the data route
AccountAmounts(revenue, operatingExpenses, costOfGoodsSold) ==
  IF revenue.thrown \/ operatingExpenses.thrown \/ costOfGoodsSold.thrown THEN Thrown
  ELSE Returned([revenue |-> Abs(revenue.v.n),
                 expenses |-> Abs(operatingExpenses.v.n + costOfGoodsSold.v.n)])

\* the monthly route's extraction from the parsed response
MonthlyExtract(profitLoss) ==
  IF profitLoss.thrown THEN Thrown ELSE SummaryAmounts(extractProfitLossSummary(profitLoss.v))

\* the data route's extraction from the parsed response
DataExtract(profitLoss) ==
  IF profitLoss.thrown THEN Thrown
  ELSE AccountAmounts(extractAccountValue(profitLoss.v, <<TOTAL_INCOME, TOTAL_REVENUE>>),
                      extractAccountValue(profitLoss.v, <<TOTAL_EXPENSES>>),
                      extractAccountValue(profitLoss.v, <<TOTAL_COGS>>))

\* The try block after the response, up to the amounts of the point: revenue and
\* expenses, or a raise.  One entry per month and body, for each route.
MonthlyAmounts == [m \in 1..MONTHS |-> [body \in Bodies |-> MonthlyExtract(ProfitLoss(m, body))]]
DataAmounts == [m \in 1..MONTHS |-> [body \in Bodies |-> DataExtract(ProfitLoss(m, body))]]

\* trendData.push({ month: monthName, revenue, expenses }) of the try block
PointOf(m, amounts) ==
  IF amounts.thrown THEN Thrown
  ELSE Returned([month |-> ToLocaleMonthShort(monthStart(m)),
                 revenue |-> amounts.v.revenue,
                 expenses |-> amounts.v.expenses])

\* The monthly route's try block after the response: the point pushed, or a raise.
MonthlyPoint(m, body) == PointOf(m, MonthlyAmounts[m][body])

\* The data route's try block after the response: the point pushed, or a raise.
DataPoint(m, body) == PointOf(m, DataAmounts[m][body])

\* the point of a try block, or the zero point its catch block pushes
OrZeroPoint(m, point) == IF point.thrown THEN ZeroPoint(m) ELSE point.v

\* error?.response?.status === 429
IsRateLimited(error) == error.response /\ error.status = 429

\* parseInt(error.response.headers?.['retry-after'] || '1') * 1000; NaN for a
\* header parseInt cannot read
Times1000(seconds) == IF seconds.nan THEN IntNaN ELSE IntOf(seconds.n * 1000)
WaitTime(header) == Times1000(ParseInt(Or(header.value, JsStr(DEFAULT_RETRY_AFTER)).s))

\* setTimeout(resolve, ms): a delay that is NaN or below 1 is run as 1 ms
TimerDelay(ms) == IF ms.nan \/ ms.n < 1 THEN 1 ELSE ms.n

\* a delay after every month, the last too: what DelayAfter is told apart from
DelayAlways(m) == TRUE

\* if (month < 12) await the inter-call delay
DelayAfter(m) == m < MONTHS

----------------------------------------------------------------------------
(* A run of generateMonthlyTrendData: each action runs from one await to the next *)

NoMonth == [month |-> 0, first |-> "none", retry |-> "none", body |-> "none", attempts |-> 0]
NoCall == [fn |-> "none", accountNames |-> <<>>, variant |-> "none"]
NoExpenses == [before |-> <<>>, after |-> <<>>]

\* a run that is not counted, and the start of one that is
NoTally == [on |-> FALSE, fetches |-> 0, delays |-> 0]
ZeroTally == [on |-> TRUE, fetches |-> 0, delays |-> 0]

\* the count after more fetches and delays
Counted(count, fetches, delays) ==
  IF count.on
  THEN [on |-> TRUE, fetches |-> count.fetches + fetches, delays |-> count.delays + delays]
  ELSE count

\* the loop goes on after the inter-call delay
Waited == IF pc = "delay" THEN 1 ELSE 0

\* no date, and no request of getPreviousPeriodData
NoDate == [nan |-> FALSE, y |-> 0, m |-> 0, d |-> 0]
NoRequest == [fromDate |-> NoDate, toDate |-> NoDate]

\* no handler runs: no request, no response, empty tables
NoGet == [handler |-> "none"]
NoResponse == [status |-> 0, error |-> "none"]
HandlerIdle ==
  /\ request = NoGet
  /\ step = "none"
  /\ users = <<>>
  /\ tokens = <<>>
  /\ response = NoResponse
  /\ calls = <<>>

InitTrend ==
  /\ route \in {"monthly", "data"}
  /\ tz \in TzOffsets
  /\ year \in IF route = "monthly" THEN {YearArgument(param) : param \in YearParams}
              ELSE {IntOf(NowYear)}
  /\ pc = "call"
  /\ month = 0
  /\ trendData = <<>>
  /\ inflight = {}
  /\ attempts = 0
  /\ retryAfter = NoHeader
  /\ timer = 0
  /\ waits = <<>>
  /\ last = NoMonth
  /\ tally = NoTally
  /\ xReport = JsUndefined
  /\ xCall = NoCall
  /\ xRet = Returned(JsUndefined)
  /\ xExpenses = NoExpenses
  /\ timeframe = "none"
  /\ fromDate = JsStr(<<>>)
  /\ previousRequest = NoRequest
  /\ previousData = Returned(JsUndefined)
  /\ HandlerIdle

\* a loop that issues the request of the next month along with that of month m:
\* what LoopFrom is told apart from
LoopFromAhead(m, pending) ==
  /\ month' = m
  /\ IF m <= MONTHS /\ ~DatesRaise(m)
     THEN /\ pc' = "fetch"
          /\ inflight' = pending \cup {Request(m), Request(m + 1)}
          /\ attempts' = 1
          /\ tally' = Counted(tally, 2, Waited)
     ELSE /\ pc' = "done"
          /\ inflight' = pending
          /\ attempts' = attempts
          /\ tally' = Counted(tally, 0, Waited)

\* The loop from month m on, up to its first await or to the return: the dates
\* are computed and the request is issued; a RangeError of toISOString is
\* caught outside the loop, which ends the run with the points pushed so far.
LoopFrom(m, pending) ==
  /\ month' = m
  /\ IF m <= MONTHS /\ ~DatesRaise(m)
     THEN /\ pc' = "fetch"
          /\ inflight' = pending \cup {Request(m)}
          /\ attempts' = 1
          /\ tally' = Counted(tally, 1, Waited)
     ELSE /\ pc' = "done"
          /\ inflight' = pending
          /\ attempts' = attempts
          /\ tally' = Counted(tally, 0, Waited)

\* The monthly route after the point of month m is pushed: the inter-call delay
\* unless m is the last month, then the next iteration.
AfterPoint(m, pending) ==
  IF DelayAfter(m)
  THEN /\ pc' = "delay"
       /\ timer' = INTER_CALL_DELAY
       /\ month' = m
       /\ inflight' = pending
       /\ attempts' = attempts
       /\ tally' = tally
  ELSE /\ timer' = 0
       /\ LoopFrom(m + 1, pending)

\* trendData.push(point), with the record of how the month went
Push(point, first, retry, body) ==
  /\ trendData' = Append(trendData, point)
  /\ last' = [month |-> month, first |-> first, retry |-> retry, body |-> body,
              attempts |-> attempts]

\* a retry whose point is the fallback whatever it returns: what RetryPoint is
\* told apart from
RetryPointFallback(m, body) == ZeroPoint(m)

\* the point the retry's try block pushes for a response, its catch block's otherwise
RetryPoint(m, body) == OrZeroPoint(m, MonthlyPoint(m, body))

\* the point pushed for a first response: a raise after the response has no
\* response.status and takes the else branch of the catch block
FirstPoint(m, body) == OrZeroPoint(m, MonthlyPoint(m, body))

MonthlyCall ==
  /\ route = "monthly" /\ pc = "call"
  /\ LoopFrom(1, inflight)
  /\ last' = NoMonth
  /\ UNCHANGED <<route, tz, year, trendData, retryAfter, timer, waits, extractVars, previousVars, handlerVars>>

MonthlyFetchOk ==
  /\ route = "monthly" /\ pc = "fetch"
  /\ \E req \in inflight, body \in Bodies :
       /\ Push(FirstPoint(month, body), "ok", "none", body)
       /\ AfterPoint(month, inflight \ {req})
  /\ waits' = <<>>
  /\ UNCHANGED <<route, tz, year, retryAfter, extractVars, previousVars, handlerVars>>

MonthlyFetchRateLimited ==
  /\ route = "monthly" /\ pc = "fetch"
  /\ \E req \in inflight, error \in Errors :
       /\ IsRateLimited(error)
       /\ retryAfter' = error.retryAfter
       /\ timer' = TimerDelay(WaitTime(error.retryAfter))
       /\ inflight' = inflight \ {req}
  /\ pc' = "retryWait"
  /\ waits' = <<>>
  /\ last' = NoMonth
  /\ UNCHANGED <<route, tz, year, month, trendData, attempts, tally, extractVars, previousVars,
                 handlerVars>>

MonthlyFetchFailed ==
  /\ route = "monthly" /\ pc = "fetch"
  /\ \E req \in inflight, error \in Errors :
       /\ ~IsRateLimited(error)
       /\ Push(ZeroPoint(month), "error", "none", "none")
       /\ AfterPoint(month, inflight \ {req})
  /\ waits' = <<>>
  /\ UNCHANGED <<route, tz, year, retryAfter, extractVars, previousVars, handlerVars>>

\* the retry timer fires and the request of the same month is issued again
MonthlyRetryTimer ==
  /\ route = "monthly" /\ pc = "retryWait"
  /\ waits' = Append(waits, timer)
  /\ timer' = 0
  /\ inflight' = inflight \cup {Request(month)}
  /\ attempts' = attempts + 1
  /\ tally' = Counted(tally, 1, 0)
  /\ pc' = "retryFetch"
  /\ last' = NoMonth
  /\ UNCHANGED <<route, tz, year, month, trendData, retryAfter, extractVars, previousVars, handlerVars>>

MonthlyRetryOk ==
  /\ route = "monthly" /\ pc = "retryFetch"
  /\ \E req \in inflight, body \in Bodies :
       /\ Push(RetryPoint(month, body), "rate", "ok", body)
       /\ AfterPoint(month, inflight \ {req})
  /\ waits' = <<>>
  /\ retryAfter' = NoHeader
  /\ UNCHANGED <<route, tz, year, extractVars, previousVars, handlerVars>>

MonthlyRetryFailed ==
  /\ route = "monthly" /\ pc = "retryFetch"
  /\ \E req \in inflight, error \in Errors :
       /\ Push(ZeroPoint(month), "rate", "fail", "none")
       /\ AfterPoint(month, inflight \ {req})
  /\ waits' = <<>>
  /\ retryAfter' = NoHeader
  /\ UNCHANGED <<route, tz, year, extractVars, previousVars, handlerVars>>

\* the inter-call timer fires and the next iteration starts
MonthlyDelayTimer ==
  /\ route = "monthly" /\ pc = "delay"
  /\ waits' = Append(waits, timer)
  /\ timer' = 0
  /\ LoopFrom(month + 1, inflight)
  /\ last' = NoMonth
  /\ UNCHANGED <<route, tz, year, trendData, retryAfter, extractVars, previousVars, handlerVars>>

\* the point the data route pushes for a response
DataRoutePoint(m, body) == OrZeroPoint(m, DataPoint(m, body))

DataCall ==
  /\ route = "data" /\ pc = "call"
  /\ LoopFrom(1, inflight)
  /\ last' = NoMonth
  /\ UNCHANGED <<route, tz, year, trendData, retryAfter, timer, waits, extractVars, previousVars, handlerVars>>

DataFetchOk ==
  /\ route = "data" /\ pc = "fetch"
  /\ \E req \in inflight, body \in Bodies :
       /\ Push(DataRoutePoint(month, body), "ok", "none", body)
       /\ LoopFrom(month + 1, inflight \ {req})
  /\ UNCHANGED <<route, tz, year, retryAfter, timer, waits, extractVars, previousVars, handlerVars>>

DataFetchFailed ==
  /\ route = "data" /\ pc = "fetch"
  /\ \E req \in inflight, error \in Errors :
       /\ Push(ZeroPoint(month), "error", "none", "none")
       /\ LoopFrom(month + 1, inflight \ {req})
  /\ UNCHANGED <<route, tz, year, retryAfter, timer, waits, extractVars, previousVars, handlerVars>>

NextTrend ==
  \/ MonthlyCall
  \/ MonthlyFetchOk
  \/ MonthlyFetchRateLimited
  \/ MonthlyFetchFailed
  \/ MonthlyRetryTimer
  \/ MonthlyRetryOk
  \/ MonthlyRetryFailed
  \/ MonthlyDelayTimer
  \/ DataCall
  \/ DataFetchOk
  \/ DataFetchFailed

SpecTrend == InitTrend /\ [][NextTrend]_vars

\* A run of the monthly route whose fetches and delays are counted, in which
\* every fetch is answered and every timer fires.
InitTally ==
  /\ route = "monthly"
  /\ tz \in {0}
  /\ year \in {YearArgument(param) : param \in YearParams}
  /\ pc = "call"
  /\ month = 0
  /\ trendData = <<>>
  /\ inflight = {}
  /\ attempts = 0
  /\ retryAfter = NoHeader
  /\ timer = 0
  /\ waits = <<>>
  /\ last = NoMonth
  /\ tally = ZeroTally
  /\ xReport = JsUndefined
  /\ xCall = NoCall
  /\ xRet = Returned(JsUndefined)
  /\ xExpenses = NoExpenses
  /\ timeframe = "none"
  /\ fromDate = JsStr(<<>>)
  /\ previousRequest = NoRequest
  /\ previousData = Returned(JsUndefined)
  /\ HandlerIdle

NextTally ==
  \/ MonthlyCall
  \/ MonthlyFetchOk
  \/ MonthlyFetchRateLimited
  \/ MonthlyFetchFailed
  \/ MonthlyRetryTimer
  \/ MonthlyRetryOk
  \/ MonthlyRetryFailed
  \/ MonthlyDelayTimer

SpecTally == InitTally /\ [][NextTally]_vars /\ WF_vars(NextTally)

----------------------------------------------------------------------------
(* The extractors called on a report tree *)

MaxChain == 12

LBL_NUMBER == JsNum(500)
ACCOUNT_INCOME == <<TOTAL_INCOME, TOTAL_REVENUE>>
ACCOUNT_EXPENSES == <<TOTAL_EXPENSES>>
ACCOUNT_COGS == <<TOTAL_COGS>>

\* the candidate lists of the callers, and one in upper case
AccountNameLists == {ACCOUNT_INCOME, ACCOUNT_EXPENSES, ACCOUNT_COGS, <<HDR_INCOME>>}

Variants == {"data", "export", "general", "previous"}
Formats == {"array", "wrapped", "single"}

IncomeLeaf == DataRow(JsStr(TOTAL_INCOME), JsStr(AMT_12345))
IncomeSummary == SummaryRow(JsStr(LBL_INCOME_UPPER), JsStr(AMT_500))
RevenueLeaf == DataRow(JsStr(TOTAL_REVENUE), JsStr(AMT_500))

\* one labelled row below d levels of groups
ChainReports ==
  {ReportOf(<<Chain(d, leaf, format)>>) :
     d \in 0..MaxChain, leaf \in {IncomeLeaf, IncomeSummary}, format \in Formats}

\* two top-level rows: a Total Income row with some amount below d1 levels, and a
\* Total Revenue row below d2 levels
PairReports ==
  {ReportOf(<<Chain(d1, DataRow(JsStr(TOTAL_INCOME), amount), "wrapped"),
              Chain(d2, RevenueLeaf, "array")>>) :
     d1 \in {0, MAX_DEPTH, MaxChain}, d2 \in {0, MAX_DEPTH, MaxChain},
     amount \in {JsStr(AMT_12345), JsStr(AMT_ZERO), JsStr(AMT_BAD), JsNum(-20050), JsStr(<<>>)}}

\* malformed inputs: no report, no Rows, a single object under Rows.Row, rows
\* that are null, cells without a value, labels that are not strings, a Header
\* cell without a value
MalformedReports ==
  {JsUndefined, JsNull, JsObj(<<>>), JsObj([Rows |-> JsNull]),
   JsObj([Rows |-> JsArr(<<IncomeLeaf>>)]),
   JsObj([Rows |-> JsObj([Row |-> IncomeLeaf])]),
   JsObj([Rows |-> JsObj([Row |-> Section(HDR_EXPENSES, <<DataRow(JsStr(LBL_RENT), JsStr(AMT_1000))>>, "wrapped")])]),
   ReportOf(<<JsNull>>),
   ReportOf(<<IncomeLeaf, JsNull>>),
   ReportOf(<<Group(<<JsNull>>, "wrapped")>>),
   ReportOf(<<JsObj([type |-> JsStr(TYPE_DATA), ColData |-> JsArr(<<JsObj(<<>>), Cell(JsStr(AMT_500))>>)])>>),
   ReportOf(<<JsObj([type |-> JsStr(TYPE_DATA), ColData |-> JsArr(<<Cell(JsStr(TOTAL_INCOME))>>)])>>),
   ReportOf(<<JsObj([type |-> JsStr(TYPE_DATA), ColData |-> JsArr(<<>>)])>>),
   ReportOf(<<JsObj([type |-> JsStr(TYPE_DATA)])>>),
   ReportOf(<<DataRow(LBL_NUMBER, JsStr(AMT_500))>>),
   ReportOf(<<SummaryRow(LBL_NUMBER, JsStr(AMT_500))>>),
   ReportOf(<<JsObj([Header |-> JsObj([ColData |-> JsArr(<<JsObj(<<>>)>>)]),
                     Rows |-> RowsOf(<<DataRow(JsStr(LBL_RENT), JsStr(AMT_1000))>>, "wrapped")])>>),
   ReportOf(<<JsObj([Header |-> JsObj([ColData |-> JsArr(<<>>)]),
                     Rows |-> RowsOf(<<DataRow(JsStr(LBL_RENT), JsStr(AMT_1000))>>, "wrapped")])>>),
   ReportOf(<<Section(HDR_EXPENSES, <<DataRow(LBL_NUMBER, JsStr(AMT_500))>>, "wrapped")>>),
   ReportOf(<<Section(HDR_EXPENSES, <<JsNull>>, "wrapped")>>)}

\* the rows of an expense section: entries to keep, totals in two letter cases,
\* amounts that are negative, zero, unparsable, or numbers, and a nested group
ExpenseRows ==
  <<DataRow(JsStr(LBL_RENT), JsStr(AMT_1000)),
    DataRow(JsStr(LBL_TOTAL_RENT), JsStr(AMT_1000)),
    DataRow(JsStr(LBL_UPPER_TOTAL), JsStr(AMT_500)),
    DataRow(JsStr(HDR_INCOME), JsStr(AMT_NEG)),
    DataRow(JsStr(HDR_COGS), JsStr(AMT_ZERO)),
    DataRow(JsStr(PROFIT), JsStr(AMT_BAD)),
    DataRow(JsStr(LBL_UTILITIES), JsNum(50000)),
    DataRow(JsStr(TOTAL_INCOME), JsNum(-700)),
    Group(<<DataRow(JsStr(HDR_COST_OF_SALES), JsStr(AMT_12345))>>, "array"),
    SummaryRow(JsStr(TOTAL_EXPENSES), JsStr(AMT_12345))>>

SectionHeadersTried ==
  {HDR_EXPENSES, HDR_OTHER_EXPENSES, HDR_COGS_LONG, HDR_COST_OF_SALES, HDR_COGS,
   HDR_EXPENSES_MIXED, HDR_INCOME}

\* the example of two entries, 1000 and 500
ExampleRows ==
  <<DataRow(JsStr(LBL_RENT), JsStr(AMT_1000)), DataRow(JsStr(LBL_UTILITIES), JsStr(AMT_500))>>

\* three entries, 7, 10 and 333.33
UnevenRows ==
  <<DataRow(JsStr(LBL_RENT), JsNum(700)), DataRow(JsStr(LBL_UTILITIES), JsNum(1000)),
    DataRow(JsStr(HDR_INCOME), JsNum(33333))>>

\* twelve entries to keep, out of order, three of them equal
ManyNames == <<"A", "B", "C", "D", "E", "F", "G", "H", "I", "J", "K", "L">>
ManyValues == <<300, 1200, 500, 500, 100, 900, 700, 1100, 200, 500, 1000, 800>>
ManyRows ==
  [i \in 1..Len(ManyValues) |-> DataRow(JsStr(<<ManyNames[i]>>), JsNum(ManyValues[i] * 100))]

\* one section at the top level, or inside an income section
ExpenseReports ==
  {ReportOf(<<Section(header, ExpenseRows, format)>>) :
     header \in SectionHeadersTried, format \in {"array", "wrapped"}}
  \cup {ReportOf(<<Section(HDR_INCOME, <<Section(header, ExpenseRows, "wrapped")>>, format),
                   IncomeSummary>>) :
          header \in SectionHeadersTried, format \in {"array", "wrapped"}}
  \cup {ReportOf(<<Section(HDR_EXPENSES, rows, format)>>) :
          rows \in {ExampleRows, UnevenRows, ManyRows}, format \in {"array", "wrapped"}}

ReportInputs == ChainReports \cup PairReports \cup MalformedReports \cup ExpenseReports

InitExtract ==
  /\ route = "none"
  /\ tz = 0
  /\ year = IntOf(NowYear)
  /\ pc = "done"
  /\ month = 0
  /\ trendData = <<>>
  /\ inflight = {}
  /\ attempts = 0
  /\ retryAfter = NoHeader
  /\ timer = 0
  /\ waits = <<>>
  /\ last = NoMonth
  /\ tally = NoTally
  /\ xReport \in ReportInputs
  /\ xCall = NoCall
  /\ xRet = Returned(JsUndefined)
  /\ xExpenses = NoExpenses
  /\ timeframe = "none"
  /\ fromDate = JsStr(<<>>)
  /\ previousRequest = NoRequest
  /\ previousData = Returned(JsUndefined)
  /\ HandlerIdle

CallExtractAccountValue ==
  /\ route = "none"
  /\ \E accountNames \in AccountNameLists :
       /\ xCall' = [fn |-> "extractAccountValue", accountNames |-> accountNames, variant |-> "none"]
       /\ xRet' = extractAccountValue(xReport, accountNames)
       /\ xExpenses' = [before |-> xExpenses.after, after |-> xExpenses.after]
  /\ UNCHANGED <<trendVars, xReport, previousVars, handlerVars>>

CallExtractExpenseBreakdown ==
  /\ route = "none"
  /\ \E variant \in Variants :
       /\ xCall' = [fn |-> "extractExpenseBreakdown", accountNames |-> <<>>, variant |-> variant]
       /\ xRet' = extractExpenseBreakdown(xReport, variant, NewExpenses(xExpenses.after))
       /\ xExpenses' = [before |-> xExpenses.after,
                        after |-> ExpensesAfter(xReport, variant, NewExpenses(xExpenses.after))]
  /\ UNCHANGED <<trendVars, xReport, previousVars, handlerVars>>

NextExtract ==
  \/ CallExtractAccountValue
  \/ CallExtractExpenseBreakdown

SpecExtract == InitExtract /\ [][NextExtract]_vars

----------------------------------------------------------------------------
(* getPreviousPeriodData: the previous/route.ts function ("previous") and its   *)
(* copy in the data route ("dataPrevious"), which differ in the                *)
(* extractExpenseBreakdown they call.  Their callers pass fromDate || ''.      *)

PreviousRoutes == {"previous", "dataPrevious"}

\* the extractExpenseBreakdown of the route's file
PreviousVariant(r) == IF r = "previous" THEN "previous" ELSE "data"

\* the form YYYY-MM-DD
IsISODate(s) ==
  /\ Len(s) = 10 /\ s[5] = "-" /\ s[8] = "-"
  /\ \A i \in {1, 2, 3, 4, 6, 7, 9, 10} : IsDigit(s[i])

\* the year, month and day written in a text of that form
WrittenDate(s) ==
  [y |-> DigitsValue(s, 1, 5), m |-> DigitsValue(s, 6, 8), d |-> DigitsValue(s, 9, 11)]

\* the local calendar day, in a zone with offset off, of UTC midnight of the
\* written date
LocalDayOf(written, off) == (DaysFromCivil(written.y, written.m, written.d) * 1440 - off) \div 1440

\* new Date(fromDate) for a date-only text of a day of the calendar, which is read
\* as UTC midnight of that day, and for a text that is no date (the empty text,
\* "abc"), which gives an Invalid Date; day is the local calendar day
ParseDate(s, off) ==
  IF IsISODate(s) /\ WrittenDate(s).m \in 1..12 /\ WrittenDate(s).d \in 1..31
  THEN [valid |-> TRUE, day |-> LocalDayOf(WrittenDate(s), off)]
  ELSE [valid |-> FALSE, day |-> 0]

\* date.getFullYear() and date.getMonth(): NaN for an Invalid Date
GetFullYear(date) == IF date.valid THEN IntOf(CivilFromDays(date.day).y) ELSE IntNaN
GetMonth(date) == IF date.valid THEN IntOf(CivilFromDays(date.day).m - 1) ELSE IntNaN

\* the date written by a template `${year}-MM-DD`, year being a number or NaN
DateOfYear(yr, m, d) == [nan |-> yr.nan, y |-> yr.n, m |-> m, d |-> d]

\* the date written by toISOString().split('T')[0]
DateOfISO(civil) == [nan |-> FALSE, y |-> civil.y, m |-> civil.m, d |-> civil.d]

\* currentYear - 1
Minus1(x) == IF x.nan THEN IntNaN ELSE IntOf(x.n - 1)

\* the YEAR branch: the first and the last day of previousYear
PreviousYearRange(previousYear) ==
  [raise |-> FALSE,
   request |-> [fromDate |-> DateOfYear(previousYear, 1, 1),
                toDate |-> DateOfYear(previousYear, 12, 31)]]

\* the other branch, given previousMonth and previousMonthEnd: toISOString raises
\* RangeError on an Invalid Date
PreviousMonthRange(previousMonth, previousMonthEnd) ==
  IF ~previousMonth.valid \/ ~previousMonthEnd.valid THEN [raise |-> TRUE, request |-> NoRequest]
  ELSE [raise |-> FALSE,
        request |-> [fromDate |-> DateOfISO(ToISODate(previousMonth)),
                     toDate |-> DateOfISO(ToISODate(previousMonthEnd))]]

\* new Date(currentDate.getFullYear(), currentDate.getMonth() - 1, 1) and
\* new Date(currentDate.getFullYear(), currentDate.getMonth(), 0)
PreviousMonthOf(fullYear, monthIndex, off) ==
  PreviousMonthRange(NewDate(fullYear, monthIndex.n - 1, 1, off), NewDate(fullYear, monthIndex.n, 0, off))

\* the range getPreviousPeriodData computes before its fetch, or the raise
PreviousRangeOf(frame, currentDate, off) ==
  IF frame = "YEAR" THEN PreviousYearRange(Minus1(GetFullYear(currentDate)))
  ELSE PreviousMonthOf(GetFullYear(currentDate), GetMonth(currentDate), off)

PreviousRange(frame, text, off) == PreviousRangeOf(frame, ParseDate(text, off), off)

\* a catch block that lets the error through: what Caught is told apart from
CaughtRethrown(error) == Thrown

\* catch (error) { return []; }
Caught(error) == Returned(<<>>)

\* the report of the previous period the server holds: an EXPENSES section of two
\* entries
PreviousReport ==
  ReportOf(<<Section(HDR_EXPENSES,
                     <<DataRow(JsStr(LBL_RENT), JsStr(AMT_1000)),
                       DataRow(JsStr(LBL_UTILITIES), JsStr(AMT_500))>>, "wrapped")>>)

\* response.json || JSON.parse(response.body || '{}')
PreviousProfitLoss(body) ==
  CASE body = "server" -> Returned(PreviousReport)
    [] body = "nullRow" -> Returned(ReportOf(<<JsNull>>))
    [] body = "emptyBody" -> Returned(JsObj(<<>>))
    [] body = "badBody" -> Thrown

\* a raise of the try block ends in its catch block
OrCaught(completion) == IF completion.thrown THEN Caught(completion) ELSE completion

\* return extractExpenseBreakdown(previousProfitLoss), inside the try block
PreviousBreakdown(profitLoss, variant) ==
  IF profitLoss.thrown THEN Caught(profitLoss)
  ELSE OrCaught(extractExpenseBreakdown(profitLoss.v, variant, NewExpenses(xExpenses.after)))

\* how the call went: the outcome of its fetch, and what the response carried
PreviousOutcome(first, body) ==
  [month |-> 0, first |-> first, retry |-> "none", body |-> body, attempts |-> attempts']

\* the dates a caller passes: first and last days of months and of years, a day
\* inside a month, the empty text and a text that is no date
DateText(y, m, d) ==
  NatText(y) \o <<"-">> \o (IF m < 10 THEN <<"0">> ELSE <<>>) \o NatText(m)
    \o <<"-">> \o (IF d < 10 THEN <<"0">> ELSE <<>>) \o NatText(d)

FromDates ==
  {DateText(NowYear, 1, 1), DateText(NowYear, 3, 1), DateText(NowYear, 3, 15),
   DateText(NowYear, 3, 31), DateText(NowYear, 12, 31), DateText(NowYear + 1, 1, 1),
   <<>>, <<"a", "b", "c">>}

Timeframes == {"YEAR", "MONTH", "QUARTER"}

InitPrevious ==
  /\ route \in PreviousRoutes
  /\ tz \in TzOffsets \cup {0}
  /\ year = IntOf(NowYear)
  /\ pc = "call"
  /\ month = 0
  /\ trendData = <<>>
  /\ inflight = {}
  /\ attempts = 0
  /\ retryAfter = NoHeader
  /\ timer = 0
  /\ waits = <<>>
  /\ last = NoMonth
  /\ tally = NoTally
  /\ xReport = JsUndefined
  /\ xCall = NoCall
  /\ xRet = Returned(JsUndefined)
  /\ xExpenses = NoExpenses
  /\ timeframe \in Timeframes
  /\ fromDate \in {JsStr(text) : text \in FromDates}
  /\ previousRequest = NoRequest
  /\ previousData = Returned(JsUndefined)
  /\ HandlerIdle

\* the function up to its await, given the range computed
PreviousCallWith(range) ==
  IF range.raise
  THEN /\ previousData' = Caught(range)
       /\ pc' = "done"
       /\ attempts' = attempts
       /\ last' = PreviousOutcome("raise", "none")
       /\ UNCHANGED <<previousRequest, inflight>>
  ELSE /\ previousRequest' = range.request
       /\ inflight' = {range.request}
       /\ attempts' = attempts + 1
       /\ pc' = "fetch"
       /\ UNCHANGED <<previousData, last>>

PreviousCall ==
  /\ route \in PreviousRoutes /\ pc = "call"
  /\ PreviousCallWith(PreviousRange(timeframe, fromDate.s, tz))
  /\ UNCHANGED <<route, tz, year, month, trendData, retryAfter, timer, waits, tally, extractVars,
                 handlerVars,
                 timeframe, fromDate>>

PreviousFetchOk ==
  /\ route \in PreviousRoutes /\ pc = "fetch"
  /\ \E req \in inflight, body \in Bodies :
       /\ previousData' = PreviousBreakdown(PreviousProfitLoss(body), PreviousVariant(route))
       /\ inflight' = inflight \ {req}
       /\ attempts' = attempts
       /\ last' = PreviousOutcome("ok", body)
  /\ pc' = "done"
  /\ UNCHANGED <<route, tz, year, month, trendData, retryAfter, timer, waits, tally, extractVars,
                 handlerVars,
                 timeframe, fromDate, previousRequest>>

PreviousFetchFailed ==
  /\ route \in PreviousRoutes /\ pc = "fetch"
  /\ \E req \in inflight, error \in Errors :
       /\ previousData' = Caught(error)
       /\ inflight' = inflight \ {req}
       /\ attempts' = attempts
       /\ last' = PreviousOutcome("error", "none")
  /\ pc' = "done"
  /\ UNCHANGED <<route, tz, year, month, trendData, retryAfter, timer, waits, tally, extractVars,
                 handlerVars,
                 timeframe, fromDate, previousRequest>>

NextPrevious ==
  \/ PreviousCall
  \/ PreviousFetchOk
  \/ PreviousFetchFailed

SpecPrevious == InitPrevious /\ [][NextPrevious]_vars

----------------------------------------------------------------------------
(* The GET handlers of the dashboard routes: general (part_001), data          *)
(* (part_003), export (part_002), monthly and previous.  Each action runs from *)
(* one await of the handler to the next.  The monthly handler goes on as the   *)
(* run of generateMonthlyTrendData above, the previous handler as the call of  *)
(* getPreviousPeriodData above.                                                *)

DashboardRoutes == {"general", "data", "monthly", "previous", "export"}

U1 == <<"u", "1">>
U2 == <<"u", "2">>
UserIds == {U1, U2}

\* what getServerSession resolves to: null, a session without a user id, the
\* session of a user
SessionOf(id) == JsObj([user |-> JsObj([id |-> JsStr(id)])])
Sessions == {JsNull, JsObj([user |-> JsObj(<<>>)]), SessionOf(U1)}

\* session?.user?.id
SessionUserId(session) == OptGet(OptGet(session, "user"), "id")

\* !session?.user?.id
NoSession(session) == ~Truthy(SessionUserId(session))

ACCESS_TOKEN == <<"a", "t">>
REALM_ID == <<"9", "1">>

\* the rows of the token table: none, a connection, a row with an empty
\* access_token, a row without realmId
TokenOf(access, realm) == JsObj([access_token |-> access, realmId |-> realm])
ConnectedToken == TokenOf(JsStr(ACCESS_TOKEN), JsStr(REALM_ID))
StoredTokens ==
  {JsNull, ConnectedToken, TokenOf(JsStr(<<>>), JsStr(REALM_ID)),
   JsObj([access_token |-> JsStr(ACCESS_TOKEN)])}

\* await getValidToken(session.user.id): the token stored for the user
getValidToken(userId) == tokens[userId]

\* a token check that asks for access_token only: what NoConnection is told apart from
NoConnectionLax(token) == ~Truthy(OptGet(token, "access_token"))

\* !token?.access_token || !token?.realmId
NoConnection(token) ==
  ~Truthy(OptGet(token, "access_token")) \/ ~Truthy(OptGet(token, "realmId"))

FRAME_YEAR == <<"Y", "E", "A", "R">>
FRAME_MONTH == <<"M", "O", "N", "T", "H">>
FRAME_QUARTER == <<"Q", "U", "A", "R", "T", "E", "R">>

\* searchParams.get('timeframe'): absent, or its text
TimeframeParams == {JsNull, JsStr(FRAME_YEAR), JsStr(FRAME_MONTH), JsStr(FRAME_QUARTER)}

\* searchParams.get('timeframe') || 'YEAR'
TimeframeOf(param) == Or(param, JsStr(FRAME_YEAR)).s

\* the timeframe argument of getPreviousPeriodData for a text
FrameName(text) ==
  IF text = FRAME_YEAR THEN "YEAR" ELSE IF text = FRAME_MONTH THEN "MONTH" ELSE "QUARTER"

\* searchParams.get('fromDate') and searchParams.get('toDate'): none, the first
\* alone, both
DateParams ==
  {<<JsNull, JsNull>>,
   <<JsStr(DateText(NowYear, 2, 1)), JsNull>>,
   <<JsStr(DateText(NowYear, 2, 1)), JsStr(DateText(NowYear, 2, 15))>>}

\* new Date() when the handler runs, as a local date
Clock == [valid |-> TRUE, day |-> DaysFromCivil(NowYear, 3, 15)]

\* `${value}` inside a template literal
TemplateText(value) ==
  CASE value.t = "string" -> value.s
    [] value.t = "null" -> <<"n", "u", "l", "l">>
    [] value.t = "undefined" -> <<"u", "n", "d", "e", "f", "i", "n", "e", "d">>

\* `${currentYear}-01-01` and `${currentYear}-12-31`
YearRange(currentYear) ==
  [fromDateStr |-> JsStr(NatText(currentYear) \o <<"-", "0", "1", "-", "0", "1">>),
   toDateStr |-> JsStr(NatText(currentYear) \o <<"-", "1", "2", "-", "3", "1">>)]

\* the text of toISOString().split('T')[0]
ISOText(civil) == DateText(civil.y, civil.m, civil.d)

\* monthStart and monthEnd of the current month, through toISOString
MonthRange(currentYear, currentMonth, off) ==
  [fromDateStr |-> JsStr(ISOText(ToISODate(NewDate(IntOf(currentYear), currentMonth - 1, 1, off)))),
   toDateStr |-> JsStr(ISOText(ToISODate(NewDate(IntOf(currentYear), currentMonth, 0, off))))]

\* the range of the general and the data route: the parameters, replaced by the
\* year or the month when one of them is missing and timeframe names one
DefaultedRange(frame, from, to, currentYear, currentMonth, off) ==
  IF ~Truthy(from) \/ ~Truthy(to)
  THEN IF frame = FRAME_YEAR THEN YearRange(currentYear)
       ELSE IF frame = FRAME_MONTH THEN MonthRange(currentYear, currentMonth, off)
       ELSE [fromDateStr |-> from, toDateStr |-> to]
  ELSE [fromDateStr |-> from, toDateStr |-> to]

\* the range of the export route: the year, or else the month
ExportRange(frame, currentYear, currentMonth, off) ==
  IF frame = FRAME_YEAR THEN YearRange(currentYear)
  ELSE MonthRange(currentYear, currentMonth, off)

\* now.getFullYear() and now.getMonth() + 1
CurrentYear(now) == GetFullYear(now).n
CurrentMonth(now) == GetMonth(now).n + 1

\* the range a handler puts in its report URLs
RangeOf(req, off) ==
  IF req.handler = "export"
  THEN ExportRange(TimeframeOf(req.timeframe), CurrentYear(req.now), CurrentMonth(req.now), off)
  ELSE DefaultedRange(TimeframeOf(req.timeframe), req.fromDate, req.toDate,
                      CurrentYear(req.now), CurrentMonth(req.now), off)

\* a report URL with its start_date and end_date, and the companyinfo URL
ReportCall(report, range) ==
  [url |-> report,
   start_date |-> TemplateText(range.fromDateStr),
   end_date |-> TemplateText(range.toDateStr)]
CompanyInfoCall == [url |-> "companyinfo", start_date |-> <<>>, end_date |-> <<>>]

\* the requests of the Promise.all of the general and the data route
ReportCalls(range) ==
  <<ReportCall("ProfitAndLoss", range), ReportCall("BalanceSheet", range), CompanyInfoCall>>

\* NextResponse.json({ error }, { status }) and NextResponse.json(data)
JsonError(status, error) == [status |-> status, error |-> error]
JsonOk == [status |-> 200, error |-> "none"]

GetRequest(handler, session, frame, from, to, yearParam) ==
  [handler |-> handler, session |-> session, timeframe |-> frame, fromDate |-> from,
   toDate |-> to, year |-> yearParam, now |-> Clock]

DashboardRequests ==
  {GetRequest(h, s, f, d[1], d[2], JsNull) :
     h \in {"general", "data"}, s \in Sessions, f \in TimeframeParams, d \in DateParams}
  \cup {GetRequest("export", s, f, JsNull, JsNull, JsNull) : s \in Sessions, f \in TimeframeParams}
  \cup {GetRequest("monthly", s, JsNull, JsNull, JsNull, y) : s \in Sessions, y \in YearParams}
  \cup {GetRequest("previous", s, f, d[1], d[2], JsNull) :
          s \in Sessions, f \in TimeframeParams, d \in {<<JsNull, JsNull>>,
             <<JsStr(DateText(NowYear, 3, 1)), JsStr(DateText(NowYear, 3, 31))>>}}

InitRoutes ==
  /\ route = "none"
  /\ tz \in TzOffsets
  /\ year = IntOf(NowYear)
  /\ pc = "idle"
  /\ month = 0
  /\ trendData = <<>>
  /\ inflight = {}
  /\ attempts = 0
  /\ retryAfter = NoHeader
  /\ timer = 0
  /\ waits = <<>>
  /\ last = NoMonth
  /\ tally = NoTally
  /\ xReport = JsUndefined
  /\ xCall = NoCall
  /\ xRet = Returned(JsUndefined)
  /\ xExpenses = NoExpenses
  /\ timeframe = "none"
  /\ fromDate = JsStr(<<>>)
  /\ previousRequest = NoRequest
  /\ previousData = Returned(JsUndefined)
  /\ request \in DashboardRequests
  /\ step = "getServerSession"
  /\ users = <<>>
  /\ tokens \in {[id \in UserIds |-> IF id = U1 THEN token ELSE ConnectedToken] :
                   token \in StoredTokens}
  /\ response = NoResponse
  /\ calls = <<>>

\* getServerSession resolved: 401 without a user id; otherwise the parameters
\* are read and getValidToken is called
RouteSession ==
  /\ request.handler \in DashboardRoutes /\ step = "getServerSession"
  /\ IF NoSession(request.session)
     THEN /\ response' = JsonError(401, "Unauthorized")
          /\ step' = "responded"
          /\ UNCHANGED <<year, timeframe, fromDate>>
     ELSE /\ step' = "getValidToken"
          /\ response' = response
          /\ year' = IF request.handler = "monthly" THEN YearArgument(request.year) ELSE year
          /\ timeframe' = IF request.handler = "previous"
                          THEN FrameName(TimeframeOf(request.timeframe)) ELSE timeframe
          /\ fromDate' = IF request.handler = "previous"
                         THEN Or(request.fromDate, JsStr(<<>>)) ELSE fromDate
  /\ UNCHANGED <<route, tz, pc, month, trendData, inflight, attempts, retryAfter, timer, waits,
                 last, tally, extractVars, previousRequest, previousData, request, users, tokens, calls>>

\* getValidToken resolved with no connection: 400
RouteNoConnection ==
  /\ request.handler \in DashboardRoutes /\ step = "getValidToken"
  /\ NoConnection(getValidToken(SessionUserId(request.session).s))
  /\ response' = JsonError(400, "No QBO connection found")
  /\ step' = "responded"
  /\ UNCHANGED <<trendVars, extractVars, previousVars, request, users, tokens, calls>>

\* getValidToken resolved with a connection, general and data route: the range,
\* then the three requests of the Promise.all
ReportsFetch ==
  /\ request.handler \in {"general", "data"} /\ step = "getValidToken"
  /\ ~NoConnection(getValidToken(SessionUserId(request.session).s))
  /\ calls' = calls \o ReportCalls(RangeOf(request, tz))
  /\ step' = "makeApiCall"
  /\ UNCHANGED <<trendVars, extractVars, previousVars, request, users, tokens, response>>

\* getValidToken resolved with a connection, export route: the range, then the
\* request of the report
ExportFetch ==
  /\ request.handler = "export" /\ step = "getValidToken"
  /\ ~NoConnection(getValidToken(SessionUserId(request.session).s))
  /\ calls' = Append(calls, ReportCall("ProfitAndLoss", RangeOf(request, tz)))
  /\ step' = "makeApiCall"
  /\ UNCHANGED <<trendVars, extractVars, previousVars, request, users, tokens, response>>

\* getValidToken resolved with a connection, monthly route:
\* generateMonthlyTrendData runs up to its first await
MonthlyGenerate ==
  /\ request.handler = "monthly" /\ step = "getValidToken"
  /\ ~NoConnection(getValidToken(SessionUserId(request.session).s))
  /\ route' = "monthly"
  /\ LoopFrom(1, inflight)
  /\ last' = NoMonth
  /\ step' = "generateMonthlyTrendData"
  /\ UNCHANGED <<tz, year, trendData, retryAfter, timer, waits, extractVars, previousVars,
                 request, users, tokens, response, calls>>

\* getValidToken resolved with a connection, previous route:
\* getPreviousPeriodData runs up to its await
PreviousGet ==
  /\ request.handler = "previous" /\ step = "getValidToken"
  /\ ~NoConnection(getValidToken(SessionUserId(request.session).s))
  /\ route' = "previous"
  /\ PreviousCallWith(PreviousRange(timeframe, fromDate.s, tz))
  /\ step' = "getPreviousPeriodData"
  /\ UNCHANGED <<tz, year, month, trendData, retryAfter, timer, waits, tally, extractVars,
                 timeframe, fromDate, request, users, tokens, response, calls>>

\* The responses of the report requests arrived.  The general and the export
\* route answer with the figures, or with 500 when a request failed or a body is
\* no JSON; the data route goes on with generateMonthlyTrendData and
\* getPreviousPeriodData, whose runs are those of the data route above.
ReportsFetched ==
  /\ request.handler \in {"general", "data", "export"} /\ step = "makeApiCall"
  /\ \E outcome \in {"ok", "failed"} :
       IF outcome = "failed"
       THEN response' = JsonError(500, "Failed to fetch data") /\ step' = "responded"
       ELSE IF request.handler = "data"
            THEN response' = response /\ step' = "generateMonthlyTrendData"
            ELSE response' = JsonOk /\ step' = "responded"
  /\ UNCHANGED <<trendVars, extractVars, previousVars, request, users, tokens, calls>>

\* generateMonthlyTrendData returned to the monthly handler: { trendData, year }
MonthlyRespond ==
  /\ request.handler = "monthly" /\ step = "generateMonthlyTrendData" /\ pc = "done"
  /\ response' = JsonOk
  /\ step' = "responded"
  /\ UNCHANGED <<trendVars, extractVars, previousVars, request, users, tokens, calls>>

\* getPreviousPeriodData returned to the previous handler
PreviousRespond ==
  /\ request.handler = "previous" /\ step = "getPreviousPeriodData" /\ pc = "done"
  /\ response' = JsonOk
  /\ step' = "responded"
  /\ UNCHANGED <<trendVars, extractVars, previousVars, request, users, tokens, calls>>

\* getServerSession or getValidToken rejected: the catch block answers 500
RouteFailed ==
  /\ request.handler \in DashboardRoutes /\ step \in {"getServerSession", "getValidToken"}
  /\ response' = JsonError(500, "Failed to fetch data")
  /\ step' = "responded"
  /\ UNCHANGED <<trendVars, extractVars, previousVars, request, users, tokens, calls>>

NextRoutes ==
  \/ RouteSession
  \/ RouteNoConnection
  \/ ReportsFetch
  \/ ExportFetch
  \/ MonthlyGenerate
  \/ PreviousGet
  \/ ReportsFetched
  \/ MonthlyRespond
  \/ PreviousRespond
  \/ RouteFailed
  \/ MonthlyFetchOk
  \/ MonthlyFetchRateLimited
  \/ MonthlyFetchFailed
  \/ MonthlyRetryTimer
  \/ MonthlyRetryOk
  \/ MonthlyRetryFailed
  \/ MonthlyDelayTimer
  \/ PreviousFetchOk
  \/ PreviousFetchFailed

SpecRoutes == InitRoutes /\ [][NextRoutes]_vars

----------------------------------------------------------------------------
(* The GET handler of the OAuth callback (part_004).  The state parameter is  *)
(* the user id the connect route (part_005) passed as state.                  *)

U9 == <<"u", "9">>

\* the ids a state parameter may name: those of the user table and one more
CallbackIds == UserIds \cup {U9}

\* searchParams.get of a parameter: absent, or its text
ParamOf(texts) == {JsNull} \cup {JsStr(text) : text \in texts}

AUTH_CODE == <<"c", "0">>
ACCESS_DENIED == <<"d", "e", "n", "i", "e", "d">>

CallbackRequests ==
  {[handler |-> "callback", session |-> s, code |-> c, state |-> st, realmId |-> r, error |-> e] :
     s \in Sessions \cup {SessionOf(U2)}, c \in ParamOf({AUTH_CODE}), st \in ParamOf(CallbackIds),
     r \in ParamOf({REALM_ID}), e \in ParamOf({ACCESS_DENIED})}

\* a row of the user table
UserRow(id) == JsObj([id |-> JsStr(id)])

\* authResponse.getToken() of a token exchange
ExchangedToken == JsObj([access_token |-> JsStr(ACCESS_TOKEN)])

\* { ...token, realmId }
WithRealm(token, realmId) ==
  JsObj([k \in DOMAIN token.o \cup {"realmId"} |-> IF k = "realmId" THEN realmId ELSE token.o[k]])

\* NextResponse.redirect(new URL(`/?error=${error}`, req.url)) and the redirect
\* to /?success=qbo_connected
RedirectError(error) == [status |-> 307, error |-> error]
RedirectSuccess == [status |-> 307, error |-> "none"]

\* session?.user?.id && session.user.id !== state
SessionMismatch(session, state) ==
  Truthy(SessionUserId(session)) /\ SessionUserId(session) # state

InitCallback ==
  /\ route = "none"
  /\ tz = 0
  /\ year = IntOf(NowYear)
  /\ pc = "idle"
  /\ month = 0
  /\ trendData = <<>>
  /\ inflight = {}
  /\ attempts = 0
  /\ retryAfter = NoHeader
  /\ timer = 0
  /\ waits = <<>>
  /\ last = NoMonth
  /\ tally = NoTally
  /\ xReport = JsUndefined
  /\ xCall = NoCall
  /\ xRet = Returned(JsUndefined)
  /\ xExpenses = NoExpenses
  /\ timeframe = "none"
  /\ fromDate = JsStr(<<>>)
  /\ previousRequest = NoRequest
  /\ previousData = Returned(JsUndefined)
  /\ request \in CallbackRequests
  /\ step = "GET"
  /\ users \in {[id \in CallbackIds |-> IF id \in present THEN UserRow(id) ELSE JsNull] :
                  present \in {{U1}, {U1, U2}}}
  /\ tokens = [id \in CallbackIds |-> JsNull]
  /\ response = NoResponse
  /\ calls = <<>>

\* the handler up to its first await: the redirects for an error parameter and
\* for a missing parameter, or the lookup of the user
CallbackParams ==
  /\ request.handler = "callback" /\ step = "GET"
  /\ IF Truthy(request.error)
     THEN response' = RedirectError("error") /\ step' = "responded"
     ELSE IF ~Truthy(request.code) \/ ~Truthy(request.state) \/ ~Truthy(request.realmId)
          THEN response' = RedirectError("missing_params") /\ step' = "responded"
          ELSE response' = response /\ step' = "findUnique"
  /\ UNCHANGED <<trendVars, extractVars, previousVars, request, users, tokens, calls>>

\* prisma.user.findUnique resolved: the redirect when there is no such user, or
\* getServerSession
CallbackUser ==
  /\ request.handler = "callback" /\ step = "findUnique"
  /\ IF ~Truthy(users[request.state.s])
     THEN response' = RedirectError("user_not_found") /\ step' = "responded"
     ELSE response' = response /\ step' = "getServerSession"
  /\ UNCHANGED <<trendVars, extractVars, previousVars, request, users, tokens, calls>>

\* getServerSession resolved: the redirect for the session of another user, or
\* the token exchange
CallbackSession ==
  /\ request.handler = "callback" /\ step = "getServerSession"
  /\ IF SessionMismatch(request.session, request.state)
     THEN response' = RedirectError("session_mismatch") /\ step' = "responded" /\ calls' = calls
     ELSE /\ response' = response
          /\ step' = "createToken"
          /\ calls' = Append(calls, [url |-> "token", start_date |-> <<>>, end_date |-> <<>>])
  /\ UNCHANGED <<trendVars, extractVars, previousVars, request, users, tokens>>

\* createToken resolved: saveTokenToDatabase(tokenWithRealm, state) is called
CallbackToken ==
  /\ request.handler = "callback" /\ step = "createToken"
  /\ tokens' = [tokens EXCEPT ![request.state.s] = WithRealm(ExchangedToken, request.realmId)]
  /\ step' = "saveTokenToDatabase"
  /\ UNCHANGED <<trendVars, extractVars, previousVars, request, users, response, calls>>

\* saveTokenToDatabase resolved: the redirect to the dashboard
CallbackSaved ==
  /\ request.handler = "callback" /\ step = "saveTokenToDatabase"
  /\ response' = RedirectSuccess
  /\ step' = "responded"
  /\ UNCHANGED <<trendVars, extractVars, previousVars, request, users, tokens, calls>>

\* an await of the try block rejected: the catch block redirects
CallbackFailed ==
  /\ request.handler = "callback"
  /\ step \in {"findUnique", "getServerSession", "createToken", "saveTokenToDatabase"}
  /\ response' = RedirectError("token_exchange_failed")
  /\ step' = "responded"
  /\ UNCHANGED <<trendVars, extractVars, previousVars, request, users, tokens, calls>>

NextCallback ==
  \/ CallbackParams
  \/ CallbackUser
  \/ CallbackSession
  \/ CallbackToken
  \/ CallbackSaved
  \/ CallbackFailed

SpecCallback == InitCallback /\ [][NextCallback]_vars

----------------------------------------------------------------------------
(* The POST handler of the profile update route *)

PASSWORD_1 == <<"p", "w", "1">>
PASSWORD_BAD == <<"b", "a", "d">>
PASSWORD_NEW == <<"n", "e", "w">>
NAME_AL == <<"A", "l">>
NAME_BO == <<"B", "o">>
NAME_ZED == <<"Z", "e", "d">>

\* bcrypt.hash(password, 10): the hash of a password
Hash(password) == <<"$", "2", "a", "$">> \o password

\* a comparison that accepts every password: what PasswordMatches is told apart from
PasswordMatchesAny(password, passwordHash) == TRUE

\* bcrypt.compare(password, passwordHash) of a password and a hash
PasswordMatches(password, passwordHash) == passwordHash.s = Hash(password.s)

\* the user table: a user with a password, a user without one
ProfileRow(name, passwordHash) == JsObj([name |-> JsStr(name), passwordHash |-> passwordHash])
ProfileUsers ==
  [id \in CallbackIds |->
     CASE id = U1 -> ProfileRow(NAME_AL, JsStr(Hash(PASSWORD_1)))
       [] id = U2 -> ProfileRow(NAME_BO, JsNull)
       [] OTHER -> JsNull]

\* the body of the request: name, currentPassword and newPassword, each absent
\* or a text
ProfileRequests ==
  {[handler |-> "profile", session |-> s, name |-> n, currentPassword |-> c, newPassword |-> p] :
     s \in Sessions \cup {SessionOf(U2), SessionOf(U9)},
     n \in {JsUndefined, JsStr(<<>>), JsStr(NAME_ZED)},
     c \in {JsUndefined, JsStr(PASSWORD_1), JsStr(PASSWORD_BAD)},
     p \in {JsUndefined, JsStr(PASSWORD_NEW)}}

InitProfile ==
  /\ route = "none"
  /\ tz = 0
  /\ year = IntOf(NowYear)
  /\ pc = "idle"
  /\ month = 0
  /\ trendData = <<>>
  /\ inflight = {}
  /\ attempts = 0
  /\ retryAfter = NoHeader
  /\ timer = 0
  /\ waits = <<>>
  /\ last = NoMonth
  /\ tally = NoTally
  /\ xReport = JsUndefined
  /\ xCall = NoCall
  /\ xRet = Returned(JsUndefined)
  /\ xExpenses = NoExpenses
  /\ timeframe = "none"
  /\ fromDate = JsStr(<<>>)
  /\ previousRequest = NoRequest
  /\ previousData = Returned(JsUndefined)
  /\ request \in ProfileRequests
  /\ step = "getServerSession"
  /\ users = ProfileUsers
  /\ tokens = <<>>
  /\ response = NoResponse
  /\ calls = <<>>

\* the row of the session's user
SessionRow == users[SessionUserId(request.session).s]

\* data: { name: name || undefined, passwordHash }: a field that is undefined is
\* left as it is
WithPassword(row, name, passwordHash) ==
  JsObj([k \in DOMAIN row.o |->
           IF k = "passwordHash" THEN JsStr(passwordHash)
           ELSE IF k = "name" /\ Truthy(name) THEN name
           ELSE row.o[k]])

\* data: { name }
WithName(row, name) == JsObj([k \in DOMAIN row.o |-> IF k = "name" THEN name ELSE row.o[k]])

\* getServerSession resolved: 401 without a user id, or request.json()
ProfileSession ==
  /\ request.handler = "profile" /\ step = "getServerSession"
  /\ IF NoSession(request.session)
     THEN response' = JsonError(401, "Unauthorized") /\ step' = "responded"
     ELSE response' = response /\ step' = "json"
  /\ UNCHANGED <<trendVars, extractVars, previousVars, request, users, tokens, calls>>

\* request.json() resolved: with a newPassword, 400 without currentPassword or
\* the lookup of the user; with a name alone, the update of the name; with
\* neither, the answer
ProfileBody ==
  /\ request.handler = "profile" /\ step = "json"
  /\ IF Truthy(request.newPassword)
     THEN IF ~Truthy(request.currentPassword)
          THEN /\ response' = JsonError(400, "Current password is required to set a new password")
               /\ step' = "responded"
          ELSE response' = response /\ step' = "findUnique"
     ELSE IF Truthy(request.name)
          THEN response' = response /\ step' = "updateName"
          ELSE response' = JsonOk /\ step' = "responded"
  /\ UNCHANGED <<trendVars, extractVars, previousVars, request, users, tokens, calls>>

\* prisma.user.findUnique resolved: 404 without a row, or bcrypt.compare
ProfileUser ==
  /\ request.handler = "profile" /\ step = "findUnique"
  /\ IF ~Truthy(SessionRow)
     THEN response' = JsonError(404, "User not found") /\ step' = "responded"
     ELSE response' = response /\ step' = "compare"
  /\ UNCHANGED <<trendVars, extractVars, previousVars, request, users, tokens, calls>>

\* bcrypt.compare resolved, which it does for a hash that is a text: 400 when
\* the password does not match, or bcrypt.hash
ProfileCompared ==
  /\ request.handler = "profile" /\ step = "compare"
  /\ Get(SessionRow, "passwordHash").t = "string"
  /\ IF ~PasswordMatches(request.currentPassword, Get(SessionRow, "passwordHash"))
     THEN response' = JsonError(400, "Current password is incorrect") /\ step' = "responded"
     ELSE response' = response /\ step' = "hash"
  /\ UNCHANGED <<trendVars, extractVars, previousVars, request, users, tokens, calls>>

\* bcrypt.hash resolved: prisma.user.update with the name and the new hash
ProfileHashed ==
  /\ request.handler = "profile" /\ step = "hash"
  /\ step' = "updatePassword"
  /\ UNCHANGED <<trendVars, extractVars, previousVars, request, users, tokens, response, calls>>

\* the update of the password resolved, which it does for a row that exists
ProfilePasswordUpdated ==
  /\ request.handler = "profile" /\ step = "updatePassword"
  /\ Truthy(SessionRow)
  /\ users' = [users EXCEPT ![SessionUserId(request.session).s] =
                 WithPassword(SessionRow, request.name, Hash(request.newPassword.s))]
  /\ response' = JsonOk
  /\ step' = "responded"
  /\ UNCHANGED <<trendVars, extractVars, previousVars, request, tokens, calls>>

\* the update of the name resolved, which it does for a row that exists
ProfileNameUpdated ==
  /\ request.handler = "profile" /\ step = "updateName"
  /\ Truthy(SessionRow)
  /\ users' = [users EXCEPT ![SessionUserId(request.session).s] = WithName(SessionRow, request.name)]
  /\ response' = JsonOk
  /\ step' = "responded"
  /\ UNCHANGED <<trendVars, extractVars, previousVars, request, tokens, calls>>

\* an await rejected: the catch block answers 500
ProfileFailed ==
  /\ request.handler = "profile"
  /\ step \in {"getServerSession", "json", "findUnique", "compare", "hash", "updatePassword",
               "updateName"}
  /\ response' = JsonError(500, "Failed to update profile")
  /\ step' = "responded"
  /\ UNCHANGED <<trendVars, extractVars, previousVars, request, users, tokens, calls>>

NextProfile ==
  \/ ProfileSession
  \/ ProfileBody
  \/ ProfileUser
  \/ ProfileCompared
  \/ ProfileHashed
  \/ ProfilePasswordUpdated
  \/ ProfileNameUpdated
  \/ ProfileFailed

SpecProfile == InitProfile /\ [][NextProfile]_vars

----------------------------------------------------------------------------
(* The whole program: a trend run, an extractor called on a report tree, a    *)
(* request of the previous period, or a request served by a handler           *)

Init ==
  InitTrend \/ InitExtract \/ InitPrevious \/ InitRoutes \/ InitCallback \/ InitProfile

Next ==
  NextTrend \/ NextExtract \/ NextPrevious \/ NextRoutes \/ NextCallback \/ NextProfile

Spec == Init /\ [][Next]_vars

----------------------------------------------------------------------------
(* Properties of the trend run *)

\* the point of a month whose report is the server's, in hundredths: the monthly
\* route adds the other expenses, the data route does not
ServerPoint(m) ==
  [month |-> MonthShort[m], revenue |-> m * 100000,
   expenses |-> IF route = "monthly" THEN m * 11100 ELSE m * 11000]

FallbackPoint(m) == [month |-> MonthShort[m], revenue |-> 0, expenses |-> 0]

\* the delay the server asks for with a retry-after header, in milliseconds:
\* one second when it gives none
RequestedWait(header) == IF Truthy(header.value) THEN header.secs * 1000 ELSE 1000

HttpDateHeader == CHOOSE h \in RetryAfterHeaders : h.value.t = "string" /\ Len(h.value.s) > 1

\* C1: whatever the year argument and the outcomes of the fetches, a run returns
\* exactly 12 points, the i-th being the point of calendar month i.
C1_TwelvePointsInOrder ==
  pc = "done" =>
    /\ Len(trendData) = 12
    /\ \A i \in 1..Len(trendData) : trendData[i].month = MonthShort[i]

\* a run of the monthly route whose year argument is not a number has returned
\* without a point
C1_ReturnedEarly == route = "monthly" /\ year.nan /\ pc = "done" /\ trendData = <<>>

\* C2: after a 429 the monthly route waits as long as the server's retry-after
\* asks (one second when it gives none) and then issues the request of the same
\* month a second time.
C2_WaitsRetryAfter ==
  (route = "monthly" /\ pc = "retryFetch") =>
    /\ Len(waits) = 1
    /\ waits[1] >= RequestedWait(retryAfter)
    /\ attempts = 2
    /\ \A r \in inflight : r.month = month

\* the request is issued again 1 ms after a 429 whose retry-after is an HTTP-date
C2_RetriedAtOnce ==
  route = "monthly" /\ pc = "retryFetch" /\ retryAfter = HttpDateHeader /\ waits = <<1>>

\* C3: when a month is rate limited once and the retry succeeds, its point is the
\* one a first success with the same response gives (the amounts of the retry's
\* report, not the fallback), pushed once, after two fetches.
C3_RetriedPoint ==
  (last.first = "rate" /\ last.retry = "ok") =>
    /\ Len(trendData) = last.month
    /\ last.attempts = 2
    /\ trendData[last.month] = FirstPoint(last.month, last.body)
    /\ (last.body = "server" => trendData[last.month] = ServerPoint(last.month))

\* month 6 was rate limited once and its point holds the amounts of the retry's report
C3_JuneRetried ==
  /\ last = [month |-> 6, first |-> "rate", retry |-> "ok", body |-> "server", attempts |-> 2]
  /\ trendData[6] = [month |-> "Jun", revenue |-> 600000, expenses |-> 66600]

\* C4: a month whose fetch fails with an error that is not a rate limit gets the
\* zero point after that one fetch; every point is the fallback or the point of
\* its own month's report, and a step never changes a point pushed before.
C4_ErrorGivesZero ==
  /\ [](last.first = "error" =>
          /\ Len(trendData) = last.month
          /\ last.attempts = 1
          /\ trendData[last.month] = FallbackPoint(last.month))
  /\ [](\A i \in 1..Len(trendData) : trendData[i] \in {FallbackPoint(i), ServerPoint(i)})
  /\ [][\A i \in 1..Len(trendData) : i <= Len(trendData') /\ trendData'[i] = trendData[i]]_vars

\* the fetch of month 3 failed: its point is zero and those of months 1 and 2 are
\* the points of their reports
C4_MarchFailed ==
  /\ last = [month |-> 3, first |-> "error", retry |-> "none", body |-> "none", attempts |-> 1]
  /\ trendData = <<ServerPoint(1), ServerPoint(2), FallbackPoint(3)>>

\* C5: at most one request is in flight; it is the request of the month after
\* the points pushed so far, so months are fetched in increasing order and the
\* request of month m+1 is not issued before the point of month m is pushed.
C5_OneFetchAtATime ==
  /\ [](/\ Cardinality(inflight) <= 1
        /\ \A r \in inflight : r.month = month /\ r.month = Len(trendData) + 1)
  /\ [][/\ month' >= month
        /\ Len(trendData') >= Len(trendData)
        /\ \A r \in inflight' \ inflight : r.month = Len(trendData') + 1]_vars

\* the request of month 7 is in flight alone, after six points
C5_JulyInFlight ==
  pc = "fetch" /\ month = 7 /\ Cardinality(inflight) = 1 /\ Len(trendData) = 6

\* C6: in the monthly route the point of each month 1..11 is followed by a wait of
\* 125 ms before the next request, however the month went; month 12 is followed
\* by none.
C6_InterCallDelay ==
  route = "monthly" =>
    /\ (last.month \in 1..11 => pc = "delay" /\ timer = 125)
    /\ (pc = "delay" => month \in 1..11 /\ timer = 125 /\ Len(trendData) = month)
    /\ (pc = "fetch" => waits = IF month = 1 THEN <<>> ELSE <<125>>)
    /\ (last.month = 12 => pc = "done" /\ timer = 0 /\ waits = <<>>)

\* the wait after month 11, which went through a failed retry
C6_DelayAfterRetry ==
  /\ route = "monthly" /\ pc = "delay" /\ timer = 125
  /\ last.month = 11 /\ last.first = "rate" /\ last.retry = "fail"

----------------------------------------------------------------------------
(* Properties of the extractors *)

\* The labelled rows of a tree with the depth they lie at: the ColData of every
\* Data row and of every Summary, at any depth, with the label and the numeric
\* value of the amount.
RECURSIVE LabelledIn(_, _)
LabelledOf(row, depth) ==
  IF row.t # "object" THEN {}
  ELSE (IF Get(row, "type") = JsStr(TYPE_DATA) /\ Truthy(Get(row, "ColData"))
        THEN {[depth |-> depth, kind |-> "Data", name |-> CellName(Get(row, "ColData")),
               amount |-> NumericValue(CellValue(Get(row, "ColData")))]}
        ELSE {})
       \cup (IF Truthy(Get(row, "Summary")) /\ Truthy(Get(Get(row, "Summary"), "ColData"))
             THEN {[depth |-> depth, kind |-> "Summary",
                    name |-> CellName(Get(Get(row, "Summary"), "ColData")),
                    amount |-> NumericValue(CellValue(Get(Get(row, "Summary"), "ColData")))]}
             ELSE {})
       \cup (IF Truthy(NestedRows(row)) THEN LabelledIn(NestedRows(row).a, depth + 1) ELSE {})

LabelledIn(rows, depth) == UNION {LabelledOf(rows[i], depth) : i \in 1..Len(rows)}

\* the top-level rows of a report, in whichever format
TopRows(report) ==
  IF ~Truthy(OptGet(report, "Rows")) THEN <<>>
  ELSE LET top == Or(Or(Get(Get(report, "Rows"), "Row"), Get(report, "Rows")), JsArr(<<>>))
       IN IF IsArray(top) THEN top.a ELSE <<top>>

\* the labelled rows whose label contains one of the names, letter case aside
Matches(report, accountNames) ==
  {r \in LabelledIn(TopRows(report), 0) :
     r.name.t = "string" /\ MatchesAccount(r.name.s, accountNames)}

\* those with an amount that is a number
Amounts(report, accountNames) == {r \in Matches(report, accountNames) : ~IsNaN(r.amount)}

\* C7: extractAccountValue returns no amount of a row deeper than depth 10 (a
\* result that is not 0 is the amount of a matching row at depth 10 or above),
\* and a single matching amount at depth 10 or above is returned.
C7_DepthCap ==
  (xCall.fn = "extractAccountValue" /\ ~xRet.thrown) =>
    /\ (xRet.v # JsNum(0) =>
          \E r \in Amounts(xReport, xCall.accountNames) : r.depth <= 10 /\ r.amount = xRet.v)
    /\ \A r \in Amounts(xReport, xCall.accountNames) :
         (Amounts(xReport, xCall.accountNames) = {r} /\ r.depth <= 10) => xRet.v = r.amount

\* the only matching row lies at depth 11 and the result is 0
C7_BelowTheCap ==
  /\ xReport = ReportOf(<<Chain(11, IncomeLeaf, "wrapped")>>)
  /\ xCall = [fn |-> "extractAccountValue", accountNames |-> ACCOUNT_INCOME, variant |-> "none"]
  /\ xRet = Returned(JsNum(0))

\* C8: extractAccountValue and every variant of extractExpenseBreakdown return
\* on every input, malformed ones included, and never raise.
C8_NeverRaises == xCall.fn # "none" => ~xRet.thrown

\* extractAccountValue raised on a report whose Row holds null
C8_RaisedOnNullRow ==
  xReport = ReportOf(<<JsNull>>) /\ xCall.fn = "extractAccountValue" /\ xRet.thrown

\* C9: when no Data row and no Summary at depth 10 or above has a label that
\* contains a candidate, extractAccountValue returns 0.
C9_NoMatchGivesZero ==
  (/\ xCall.fn = "extractAccountValue"
   /\ \A r \in Matches(xReport, xCall.accountNames) : r.depth > 10) =>
    xRet = Returned(JsNum(0))

\* extractAccountValue raised on a row whose label is a number, which contains
\* no candidate
C9_RaisedOnNumberLabel ==
  /\ xReport = ReportOf(<<DataRow(LBL_NUMBER, JsStr(AMT_500))>>)
  /\ xCall.fn = "extractAccountValue" /\ xRet.thrown

\* C10: no entry a variant of extractExpenseBreakdown returns has a name that
\* contains "total" in any letter case; the value of each is above zero and is
\* the numeric amount of a Data row of the tree with that name.
C10_NoTotalsNoNonPositive ==
  (xCall.fn = "extractExpenseBreakdown" /\ ~xRet.thrown) =>
    \A i \in 1..Len(xRet.v) :
      /\ ~Includes(ToLowerCase(xRet.v[i].name), <<"t", "o", "t", "a", "l">>)
      /\ xRet.v[i].value > 0
      /\ \E r \in LabelledIn(TopRows(xReport), 0) :
           r.kind = "Data" /\ r.name = JsStr(xRet.v[i].name) /\ r.amount = JsNum(xRet.v[i].value)

\* the data route's breakdown of an EXPENSES section that holds totals and
\* amounts that are negative, zero and unparsable: three entries are returned
C10_SectionWithTotals ==
  /\ xReport = ReportOf(<<Section(HDR_EXPENSES, ExpenseRows, "wrapped")>>)
  /\ xCall.fn = "extractExpenseBreakdown" /\ xCall.variant = "data"
  /\ ~xRet.thrown /\ Len(xRet.v) = 3

----------------------------------------------------------------------------
(* Properties of the breakdown's percentages and order *)

\* the entries a variant has collected from the report before it computes the
\* percentages, sorts and cuts
KeptOf(report, variant) ==
  IF variant \in {"data", "export"}
  THEN WalkOf(WalkedRows(report), variant, <<>>).v
  ELSE CollectedOf(SectionsOf(OptGet(OptGet(report, "Rows"), "Row"), variant), <<>>).v

\* the exact value of a double of exponent -64 or more, in units of 2^-64
UnitsOf(x) == IF x = ZERO THEN <<>> ELSE ShiftLeft(LimbsOf(x.m), x.e + 64)

\* the exact sum of the percentages of the entries, in the same units
RECURSIVE PercentageSum(_)
PercentageSum(entries) ==
  IF entries = <<>> THEN <<>>
  ELSE AddNat(UnitsOf(entries[1].percentage), PercentageSum(Tail(entries)))

\* 100, and a tolerance of 2^-32, in the same units
HundredUnits == ShiftLeft(NatLimbs(100), 64)
ToleranceUnits == ShiftLeft(<<1>>, 32)

\* sum <= bound
LeqNat(sum, bound) == ~LessNat(bound, sum)

\* every percentage of result is the double (value / total) * 100 with total the
\* sum of all of kept, and their sum is 100 to within the tolerance: not above
\* it, and not below it when nothing was cut
PercentagesOf(result, kept, sum) ==
  /\ \A i \in 1..Len(result) :
       result[i].percentage = Times100(DivDouble(ToDouble(result[i].value), TotalOf(kept)))
  /\ LeqNat(sum, AddNat(HundredUnits, ToleranceUnits))
  /\ Len(kept) <= TOP_N => LeqNat(HundredUnits, AddNat(sum, ToleranceUnits))

BreakdownReturned ==
  xCall.fn = "extractExpenseBreakdown" /\ ~xRet.thrown /\ xRet.v # <<>>

\* C11 (as amended): each returned entry's percentage is the double
\* (value / total) * 100, total being the sum of all kept values before the cut
\* to ten; the percentages sum to at most 100, and to 100 when at most ten
\* entries were kept, up to the rounding of the double arithmetic.
C11_PercentagesOfTotal ==
  BreakdownReturned =>
    PercentagesOf(xRet.v, KeptOf(xReport, xCall.variant), PercentageSum(xRet.v))

\* the sum is at most 100, and 100 when nothing was cut
SumsToHundred(kept, sum) ==
  /\ LeqNat(sum, HundredUnits)
  /\ Len(kept) <= TOP_N => sum = HundredUnits

\* C11 (as stated): the percentages of the returned entries sum to at most 100,
\* and to exactly 100 when at most ten entries were kept.
C11_SumExactlyHundred ==
  BreakdownReturned =>
    SumsToHundred(KeptOf(xReport, xCall.variant), PercentageSum(xRet.v))

\* the data route's breakdown of twelve kept entries: ten are returned, each with
\* its share of the total of the twelve
C11_TenOfTwelve ==
  /\ xReport = ReportOf(<<Section(HDR_EXPENSES, ManyRows, "wrapped")>>)
  /\ xCall.fn = "extractExpenseBreakdown" /\ xCall.variant = "data"
  /\ ~xRet.thrown /\ Len(xRet.v) = TOP_N
  /\ TotalOf(KeptOf(xReport, "data")) = DoubleOf(780000)

\* the number of entries of value v
CountOf(entries, v) == Cardinality({i \in DOMAIN entries : entries[i].value = v})

\* result is the largest entries of kept, at most TOP_N of them, the largest first
LargestOf(result, kept) ==
  /\ Len(result) = (IF Len(kept) < TOP_N THEN Len(kept) ELSE TOP_N)
  /\ \A i, j \in DOMAIN result : i < j => result[i].value >= result[j].value
  /\ \A i \in DOMAIN result : CountOf(result, result[i].value) <= CountOf(kept, result[i].value)
  /\ \A k \in DOMAIN kept :
       CountOf(result, kept[k].value) < CountOf(kept, kept[k].value)
         => kept[k].value <= result[Len(result)].value

\* C12: a breakdown has at most ten entries, in non-increasing order of value,
\* and they are the ten largest of the kept values.
C12_TenLargestSorted ==
  BreakdownReturned => LargestOf(xRet.v, KeptOf(xReport, xCall.variant))

\* the export route's breakdown of twelve kept entries that come out of order:
\* the 1200 is first, the 300 tenth, the 200 and the 100 are cut
C12_TwelveOutOfOrder ==
  /\ xReport = ReportOf(<<Section(HDR_EXPENSES, ManyRows, "array")>>)
  /\ xCall.fn = "extractExpenseBreakdown" /\ xCall.variant = "export"
  /\ ~xRet.thrown /\ Len(xRet.v) = TOP_N
  /\ xRet.v[1].value = 120000 /\ xRet.v[TOP_N].value = 30000

----------------------------------------------------------------------------
(* Properties of the request of the previous period *)

PlainDate(y, m, d) == [nan |-> FALSE, y |-> y, m |-> m, d |-> d]

\* the call has computed its range from a fromDate of the form YYYY-MM-DD
RangeComputed(frames) ==
  route \in PreviousRoutes /\ timeframe \in frames /\ pc # "call" /\ IsISODate(fromDate.s)

\* the year before the year written
YearBefore(written) ==
  [fromDate |-> PlainDate(written.y - 1, 1, 1), toDate |-> PlainDate(written.y - 1, 12, 31)]

\* C13: with the timeframe "YEAR" the range requested is January 1 to December
\* 31 of the year before the year written in fromDate, whatever the zone of the
\* server.
C13_PreviousYearRequested ==
  RangeComputed({"YEAR"}) => previousRequest = YearBefore(WrittenDate(fromDate.s))

\* west of Greenwich the call for the first of January of a year has requested
\* the year two before it
C13_TwoYearsBefore ==
  /\ route \in PreviousRoutes /\ tz = 300 /\ timeframe = "YEAR"
  /\ fromDate = JsStr(DateText(NowYear, 1, 1))
  /\ pc = "fetch"
  /\ previousRequest = [fromDate |-> PlainDate(NowYear - 2, 1, 1),
                        toDate |-> PlainDate(NowYear - 2, 12, 31)]

\* the calendar month before the month written: from its first day to the day
\* before the first of the month written
MonthBefore(written) ==
  [fromDate |-> PlainDate(IF written.m = 1 THEN written.y - 1 ELSE written.y,
                          IF written.m = 1 THEN 12 ELSE written.m - 1, 1),
   toDate |-> DateOfISO(CivilFromDays(DaysFromCivil(written.y, written.m, 1) - 1))]

\* C14: with another timeframe the range requested is the first to the last day
\* of the calendar month before the month that holds fromDate, whatever the zone
\* of the server.
C14_PreviousMonthRequested ==
  RangeComputed(Timeframes \ {"YEAR"}) =>
    last.first # "raise" /\ previousRequest = MonthBefore(WrittenDate(fromDate.s))

\* west of Greenwich the call for the first of March has requested January
C14_JanuaryForMarch ==
  /\ route \in PreviousRoutes /\ tz = 300 /\ timeframe = "MONTH"
  /\ fromDate = JsStr(DateText(NowYear, 3, 1))
  /\ pc = "fetch"
  /\ previousRequest = [fromDate |-> PlainDate(NowYear, 1, 1),
                        toDate |-> PlainDate(NowYear, 1, 31)]

\* C15: whatever the timeframe and fromDate, a call whose fetch has failed
\* returns the empty sequence and raises nothing, and has issued one fetch.
C15_FailureGivesEmpty ==
  route \in PreviousRoutes =>
    /\ ~previousData.thrown
    /\ attempts <= 1
    /\ (pc = "done" /\ last.first = "error") =>
         previousData = Returned(<<>>) /\ attempts = 1 /\ inflight = {}

\* the fetch of a call with the empty fromDate and the timeframe "YEAR" has failed
C15_EmptyDateFetchFailed ==
  /\ route \in PreviousRoutes /\ timeframe = "YEAR" /\ fromDate = JsStr(<<>>)
  /\ pc = "done" /\ last.first = "error" /\ previousRequest.fromDate.nan

----------------------------------------------------------------------------
(* Properties of the order of the search and of the sections *)

\* The labelled rows of a tree in document order, depth first: the Data row of
\* a node, then its Summary, then its children.
RECURSIVE LabelledSeq(_, _, _)
LabelledRow(row, depth) ==
  IF row.t # "object" THEN <<>>
  ELSE (IF Get(row, "type") = JsStr(TYPE_DATA) /\ Truthy(Get(row, "ColData"))
        THEN <<[depth |-> depth, kind |-> "Data", name |-> CellName(Get(row, "ColData")),
                amount |-> NumericValue(CellValue(Get(row, "ColData")))]>>
        ELSE <<>>)
       \o (IF Truthy(Get(row, "Summary")) /\ Truthy(Get(Get(row, "Summary"), "ColData"))
           THEN <<[depth |-> depth, kind |-> "Summary",
                   name |-> CellName(Get(Get(row, "Summary"), "ColData")),
                   amount |-> NumericValue(CellValue(Get(Get(row, "Summary"), "ColData")))]>>
           ELSE <<>>)
       \o (IF Truthy(NestedRows(row)) THEN LabelledSeq(NestedRows(row).a, 1, depth + 1) ELSE <<>>)

LabelledSeq(rows, i, depth) ==
  IF i > Len(rows) THEN <<>> ELSE LabelledRow(rows[i], depth) \o LabelledSeq(rows, i + 1, depth)

\* a labelled row the search visits whose label contains one of the names
IsMatch(r, accountNames) ==
  r.depth <= MAX_DEPTH /\ r.name.t = "string" /\ MatchesAccount(r.name.s, accountNames)

\* result is the amount of the first match of labelled, if there is one
FirstMatchIs(labelled, accountNames, result) ==
  \A i \in DOMAIN labelled :
    (IsMatch(labelled[i], accountNames) /\ \A j \in 1..(i - 1) : ~IsMatch(labelled[j], accountNames))
      => result = labelled[i].amount

\* C16: extractAccountValue returns the amount of the first row, in document
\* order and depth first, whose label contains a candidate, a Data row before
\* the Summary of its node and a node before its children; no later row is
\* examined.
C16_FirstMatchReturned ==
  (xCall.fn = "extractAccountValue" /\ ~xRet.thrown) =>
    FirstMatchIs(LabelledSeq(TopRows(xReport), 1, 0), xCall.accountNames, xRet.v)

\* the first match, a Total Income row of amount 0 at depth 10, was passed over
\* and the amount of the Total Revenue row after it returned
C16_LaterRowReturned ==
  /\ xReport = ReportOf(<<Chain(MAX_DEPTH, DataRow(JsStr(TOTAL_INCOME), JsStr(AMT_ZERO)), "wrapped"),
                          Chain(0, RevenueLeaf, "array")>>)
  /\ xCall = [fn |-> "extractAccountValue", accountNames |-> ACCOUNT_INCOME, variant |-> "none"]
  /\ xRet = Returned(JsNum(50000))

\* the labels that make a Header an expense section, in lower case
SectionLabels ==
  {ToLowerCase(h) : h \in {HDR_EXPENSES, HDR_OTHER_EXPENSES, HDR_COGS_LONG, HDR_COST_OF_SALES, HDR_COGS}}

\* the Header of the node contains one of the labels, letter case aside
HasSectionHeader(row) ==
  /\ Truthy(Get(row, "Header")) /\ Truthy(Get(Get(row, "Header"), "ColData"))
  /\ OptGet(Index(Get(Get(row, "Header"), "ColData"), 0), "value").t = "string"
  /\ \E l \in SectionLabels :
       Includes(ToLowerCase(OptGet(Index(Get(Get(row, "Header"), "ColData"), 0), "value").s), l)

\* The entries of the Data rows that pass the filter and lie, at any depth, below
\* a node with such a Header; inSection tells whether rows lie below one.
RECURSIVE EntriesIn(_, _)
EntriesOf(row, inSection) ==
  IF row.t # "object" THEN {}
  ELSE (IF inSection /\ IsDataRow(row) /\ ExpenseRow(row).k = "push"
        THEN {ExpenseRow(row).e} ELSE {})
       \cup (IF Truthy(NestedRows(row))
             THEN EntriesIn(NestedRows(row).a, inSection \/ HasSectionHeader(row))
             ELSE {})

EntriesIn(rows, inSection) == UNION {EntriesOf(rows[i], inSection) : i \in DOMAIN rows}

EntrySet(kept) == {kept[i] : i \in DOMAIN kept}

\* a breakdown of a well-formed report with one section
SectionBreakdown ==
  xCall.fn = "extractExpenseBreakdown" /\ ~xRet.thrown /\ xReport \in ExpenseReports

\* C17: every variant of extractExpenseBreakdown collects exactly the Data rows
\* that pass the filter and lie at any depth below a node whose Header contains
\* "expenses", "other expenses", "cost of goods sold", "cost of sales" or "cogs",
\* letter case aside.
C17_CollectedIffInSection ==
  SectionBreakdown =>
    EntrySet(KeptOf(xReport, xCall.variant)) = EntriesIn(TopRows(xReport), FALSE)

\* the data route's breakdown of a COGS section that holds entries is empty
C17_CogsSectionEmpty ==
  /\ xReport = ReportOf(<<Section(HDR_COGS, ExpenseRows, "wrapped")>>)
  /\ xCall.fn = "extractExpenseBreakdown" /\ xCall.variant = "data"
  /\ xRet = Returned(<<>>)
  /\ EntriesIn(TopRows(xReport), FALSE) # {}

\* A node with the Rows of every node of its subtree rewritten: a bare array as
\* an object that holds the array under Row, such an object as the bare array.
RECURSIVE Rewrap(_)
RewrapEach(rows) == [i \in DOMAIN rows |-> Rewrap(rows[i])]
RewrapRows(Rows) ==
  IF IsArray(Rows) THEN JsObj([Row |-> JsArr(RewrapEach(Rows.a))])
  ELSE IF Rows.t = "object" /\ IsArray(Get(Rows, "Row")) THEN JsArr(RewrapEach(Get(Rows, "Row").a))
  ELSE Rows
Rewrap(row) ==
  IF row.t = "object" /\ "Rows" \in DOMAIN row.o
  THEN JsObj([row.o EXCEPT !["Rows"] = RewrapRows(row.o["Rows"])])
  ELSE row

\* the report with the nodes below its top-level rows rewritten
Rewritten(report) == ReportOf(RewrapEach(TopRows(report)))

\* the call made, on another report
SameCallOn(report) ==
  IF xCall.fn = "extractAccountValue" THEN extractAccountValue(report, xCall.accountNames)
  ELSE extractExpenseBreakdown(report, xCall.variant, <<>>)

\* C18: the result of extractAccountValue and of every variant of
\* extractExpenseBreakdown stays the same when the Rows of nodes of the tree are
\* rewritten from the bare array to the array under Row, or back.
C18_EitherRowsFormat ==
  (xCall.fn # "none" /\ xReport \in ChainReports \cup PairReports \cup ExpenseReports) =>
    xRet = SameCallOn(Rewritten(xReport))

\* the general route's breakdown of a section whose Rows is a bare array is
\* empty, and that of the same section with the array under Row is not
C18_BareRowsSkipped ==
  /\ xReport = ReportOf(<<Section(HDR_EXPENSES, ExampleRows, "array")>>)
  /\ xCall.fn = "extractExpenseBreakdown" /\ xCall.variant = "general"
  /\ xRet = Returned(<<>>)
  /\ Rewritten(xReport) = ReportOf(<<Section(HDR_EXPENSES, ExampleRows, "wrapped")>>)
  /\ SameCallOn(Rewritten(xReport)).v # <<>>

----------------------------------------------------------------------------
(* Properties of the trend's ranges and amounts *)

\* the calendar month m of the year y, from its first to its last day
CalendarMonth(y, m) ==
  [month |-> m,
   fromDate |-> [y |-> y, m |-> m, d |-> 1],
   toDate |-> CivilFromDays(DaysFromCivil(IF m = 12 THEN y + 1 ELSE y, IF m = 12 THEN 1 ELSE m + 1, 1) - 1)]

\* C19: the range requested for month m is the first to the last calendar day
\* of month m of the year, whatever the zone of the server (so that the twelve
\* ranges are disjoint and cover the year).
C19_FullCalendarMonths ==
  route \in {"monthly", "data"} =>
    \A req \in inflight : req = CalendarMonth(year.n, req.month)

\* east of Greenwich the request for January runs from 31 December of the year
\* before to 30 January
C19_DecemberToJanuary ==
  /\ route \in {"monthly", "data"} /\ tz = -60 /\ year = IntOf(NowYear)
  /\ pc = "fetch" /\ month = 1
  /\ inflight = {[month |-> 1,
                  fromDate |-> [y |-> NowYear - 1, m |-> 12, d |-> 31],
                  toDate |-> [y |-> NowYear, m |-> 1, d |-> 30]]}

\* the last step pushed the point of a month whose report, the server's, was
\* fetched, at the first attempt or at the retry
ServerMonthPushed ==
  /\ route \in {"monthly", "data"} /\ last.month # 0 /\ last.body = "server"
  /\ last.first = "ok" \/ last.retry = "ok"

\* the point has the revenue | income | and the expenses | expenses + cost of
\* goods sold | of the server's report of month m, in hundredths
PointOfTotals(point, m) ==
  /\ point.revenue = m * 100000
  /\ point.expenses = m * 10000 + m * 1000
  /\ point.revenue >= 0 /\ point.expenses >= 0

\* C20: the point of a month that was fetched has the revenue | Total Income |
\* and the expenses | Total Expenses + Total Cost of Goods Sold |, Total Other
\* Expenses not being added, at the first attempt and at the retry alike.
C20_ExpensesWithoutOther ==
  ServerMonthPushed => PointOfTotals(trendData[Len(trendData)], last.month)

\* the monthly route's point of March, with the other expenses added: 333.00
\* for expenses of 300.00 and cost of goods sold of 30.00
C20_OtherExpensesAdded ==
  /\ route = "monthly" /\ last.month = 3 /\ last.first = "ok" /\ last.body = "server"
  /\ Len(trendData) = 3
  /\ trendData[3].revenue = 300000 /\ trendData[3].expenses = 33300

----------------------------------------------------------------------------
(* Properties of the extractors as functions *)

SubtreeResult(report, i, accountNames) ==
  extractAccountValue(ReportOf(<<TopRows(report)[i]>>), accountNames)

\* the first of the results of the subtrees from the i-th on that is not 0; 0
\* when there is none
RECURSIVE FirstNonZero(_, _, _)
FirstNonZero(report, i, accountNames) ==
  IF i > Len(TopRows(report)) THEN JsNum(0)
  ELSE IF SubtreeResult(report, i, accountNames).v # JsNum(0)
       THEN SubtreeResult(report, i, accountNames).v
       ELSE FirstNonZero(report, i + 1, accountNames)

\* no top-level row has itself a label that contains one of the names
NoneMatchesItself(report, accountNames) ==
  \A r \in LabelledIn(TopRows(report), 0) :
    r.depth = 0 => ~(r.name.t = "string" /\ MatchesAccount(r.name.s, accountNames))

\* C22: when the nodes of a level do not match themselves, the result of
\* extractAccountValue is the first result of their subtrees that is not 0: a
\* subtree whose result is 0, because nothing in it matches or because the
\* amount of its match is 0, does not end the search, which goes on with the
\* siblings after it.
C22_FirstNonZeroSubtree ==
  (/\ xCall.fn = "extractAccountValue"
   /\ xReport \in ChainReports \cup PairReports \cup ExpenseReports
   /\ NoneMatchesItself(xReport, xCall.accountNames)) =>
    xRet = Returned(FirstNonZero(xReport, 1, xCall.accountNames))

\* the subtree of the first row holds a match of amount 0, ten levels down, and
\* the result is the amount of the match in the subtree of its sibling
C22_ZeroSubtreePassed ==
  /\ xReport = ReportOf(<<Chain(MAX_DEPTH, DataRow(JsStr(TOTAL_INCOME), JsStr(AMT_ZERO)), "wrapped"),
                          Chain(MAX_DEPTH, RevenueLeaf, "array")>>)
  /\ xCall = [fn |-> "extractAccountValue", accountNames |-> ACCOUNT_INCOME, variant |-> "none"]
  /\ SubtreeResult(xReport, 1, ACCOUNT_INCOME) = Returned(JsNum(0))
  /\ xRet = Returned(JsNum(50000))

\* the amount cell of a ColData is missing, empty, or a text that does not parse
AbsentAmount(colData) ==
  \/ Nullish(OptGet(Index(colData, 1), "value"))
  \/ /\ OptGet(Index(colData, 1), "value").t = "string"
     /\ \/ OptGet(Index(colData, 1), "value").s = <<>>
        \/ IsNaN(ParseFloat(StripCommas(OptGet(Index(colData, 1), "value").s)))

\* the row is no Data row with such an amount
HasAmount(row) ==
  ~(row.t = "object" /\ IsDataRow(row) /\ AbsentAmount(Get(row, "ColData")))

\* A node without the Data rows of its subtree whose amount is absent.
RECURSIVE WithoutAbsent(_)
PresentOf(kept) == [i \in DOMAIN kept |-> WithoutAbsent(kept[i])]
PresentEach(rows) == PresentOf(SelectSeq(rows, HasAmount))
PresentRows(Rows) ==
  IF IsArray(Rows) THEN JsArr(PresentEach(Rows.a))
  ELSE IF Rows.t = "object" /\ IsArray(Get(Rows, "Row"))
       THEN JsObj([Row |-> JsArr(PresentEach(Get(Rows, "Row").a))])
       ELSE Rows
WithoutAbsent(row) ==
  IF row.t = "object" /\ "Rows" \in DOMAIN row.o
  THEN JsObj([row.o EXCEPT !["Rows"] = PresentRows(row.o["Rows"])])
  ELSE row

\* the report without the Data rows whose amount is absent
Present(report) == ReportOf(PresentEach(TopRows(report)))

\* C23: a Data row whose amount is missing, empty or does not parse counts as
\* absent: the result of extractAccountValue and of extractExpenseBreakdown is
\* the result on the tree without such rows, so that such a row neither ends the
\* search with the value 0 nor is collected.
C23_AbsentAmountIgnored ==
  (xCall.fn # "none" /\ xReport \in PairReports \cup ExpenseReports) =>
    xRet = SameCallOn(Present(xReport))

\* a first top-level row that matches and has the empty amount has ended the
\* search with 0, the row after it matching with the amount 500
C23_EmptyAmountReturned ==
  /\ xReport = ReportOf(<<Chain(0, DataRow(JsStr(TOTAL_INCOME), JsStr(<<>>)), "wrapped"),
                          Chain(0, RevenueLeaf, "array")>>)
  /\ xCall = [fn |-> "extractAccountValue", accountNames |-> ACCOUNT_INCOME, variant |-> "none"]
  /\ xRet = Returned(JsNum(0))
  /\ SameCallOn(Present(xReport)) = Returned(JsNum(50000))

----------------------------------------------------------------------------
(* Properties of the dashboard handlers *)

\* the caller supplied neither fromDate nor toDate
NoDatesSupplied == request.fromDate = JsNull /\ request.toDate = JsNull

\* the general, the data or the export handler has requested its report
ReportRequested == request.handler \in {"general", "data", "export"} /\ calls # <<>>

\* the current year, or the current month, as texts YYYY-MM-DD
CurrentPeriod(frame, today) ==
  IF frame = FRAME_YEAR
  THEN [from |-> DateText(today.y, 1, 1), to |-> DateText(today.y, 12, 31)]
  ELSE [from |-> ISOText(CalendarMonth(today.y, today.m).fromDate),
        to |-> ISOText(CalendarMonth(today.y, today.m).toDate)]

\* C24: when the caller supplies no fromDate and no toDate, the report is
\* requested from January 1 to December 31 of the current year for the timeframe
\* YEAR and from the first to the last day of the current month for every other
\* timeframe; no report is requested with a null or undefined date.
C24_DefaultRangeDefined ==
  (ReportRequested /\ NoDatesSupplied) =>
    /\ calls[1].start_date
         = CurrentPeriod(TimeframeOf(request.timeframe), CivilFromDays(request.now.day)).from
    /\ calls[1].end_date
         = CurrentPeriod(TimeframeOf(request.timeframe), CivilFromDays(request.now.day)).to

\* the general route, asked for the timeframe QUARTER without dates, has
\* requested its reports with start_date=null and end_date=null
C24_NullRangeRequested ==
  /\ request.handler = "general"
  /\ request.timeframe = JsStr(FRAME_QUARTER)
  /\ NoDatesSupplied
  /\ Len(calls) = 3
  /\ calls[1].url = "ProfitAndLoss"
  /\ calls[1].start_date = <<"n", "u", "l", "l">>
  /\ calls[1].end_date = <<"n", "u", "l", "l">>

\* the request has a session with a user id, and the token stored for that user
\* has an access_token and a realmId
Connected ==
  IF NoSession(request.session) THEN FALSE
  ELSE /\ Truthy(OptGet(tokens[SessionUserId(request.session).s], "access_token"))
       /\ Truthy(OptGet(tokens[SessionUserId(request.session).s], "realmId"))

\* the handler has issued a request to the accounting API
Fetched == calls # <<>> \/ inflight # {} \/ attempts > 0

\* the handler answered, and not from its catch block
Answered == step = "responded" /\ response.status # 500

----------------------------------------------------------------------------
(* The two copies of generateMonthlyTrendData, side by side *)

\* a month of a run has just been pushed
MonthPushed == route \in {"monthly", "data"} /\ last.month # 0

\* what the monthly route pushes for a month whose fetches went as outcome says,
\* and the fetches it issues for it
MonthlyOutcomePoint(m, outcome) ==
  CASE outcome.first = "ok" -> FirstPoint(m, outcome.body)
    [] outcome.first = "rate" /\ outcome.retry = "ok" -> RetryPoint(m, outcome.body)
    [] OTHER -> ZeroPoint(m)
MonthlyOutcomeFetches(outcome) == IF outcome.first = "rate" THEN 2 ELSE 1

\* what the data route pushes for it, and the fetches it issues: a 429 is an
\* error like any other
DataOutcomePoint(m, outcome) ==
  IF outcome.first = "ok" THEN DataRoutePoint(m, outcome.body) ELSE ZeroPoint(m)
DataOutcomeFetches(outcome) == 1

\* C26: the monthly route's and the data route's generateMonthlyTrendData are
\* equivalent: for a month whose fetches went the same way, either pushes the
\* point the other would push, after the fetches the other would issue (a second
\* one after a 429), and waits the inter-call delay before the next month.
C26_AggregatorsEquivalent ==
  MonthPushed =>
    /\ trendData[Len(trendData)] = MonthlyOutcomePoint(last.month, last)
    /\ trendData[Len(trendData)] = DataOutcomePoint(last.month, last)
    /\ last.attempts = MonthlyOutcomeFetches(last)
    /\ last.attempts = DataOutcomeFetches(last)
    /\ last.month < MONTHS => (pc = "delay" /\ timer = INTER_CALL_DELAY)

\* the monthly route answered a 429 of March with a second fetch and pushed the
\* point of the server's report, where the data route pushes the zero point
\* after one fetch
C26_MonthlyRetriedMarch ==
  /\ route = "monthly" /\ last.month = 3
  /\ last.first = "rate" /\ last.retry = "ok" /\ last.body = "server"
  /\ last.attempts = 2
  /\ trendData[3] = MonthlyOutcomePoint(3, last)
  /\ trendData[3].revenue = 300000
  /\ DataOutcomePoint(3, last) = ZeroPoint(3)
  /\ DataOutcomeFetches(last) = 1

----------------------------------------------------------------------------
(* The breakdown of the current period and that of the previous period *)

\* the variant the result of a call is compared with
OtherVariant(variant) == IF variant = "general" THEN "previous" ELSE "general"

\* C27: the general route's and the previous route's extractExpenseBreakdown
\* return the same entries on the same report tree.
C27_SameSelection ==
  (xCall.fn = "extractExpenseBreakdown" /\ xCall.variant \in {"general", "previous"}) =>
    xRet = extractExpenseBreakdown(xReport, OtherVariant(xCall.variant), <<>>)

\* the general route's breakdown of a report whose only section is COST OF GOODS
\* SOLD has entries, the previous route's breakdown of it has none
C27_CostOfGoodsOnlyCurrent ==
  /\ xReport = ReportOf(<<Section(HDR_COGS_LONG, ExpenseRows, "wrapped")>>)
  /\ xCall.fn = "extractExpenseBreakdown" /\ xCall.variant = "general"
  /\ ~xRet.thrown /\ Len(xRet.v) > 0
  /\ extractExpenseBreakdown(xReport, "previous", <<>>) = Returned(<<>>)

----------------------------------------------------------------------------
(* The fetches and the delays of a run *)

\* C28: when every fetch is answered and every timer fires, a run of the monthly
\* route's generateMonthlyTrendData returns, having issued at least 12 and at
\* most 24 fetches, at most 2 for a month, and waited the inter-call delay
\* exactly 11 times.
C28_TerminatesWithinBudget ==
  /\ <>(pc = "done")
  /\ [](attempts <= 2)
  /\ [](pc = "done" => /\ tally.fetches >= MONTHS
                       /\ tally.fetches <= 2 * MONTHS
                       /\ tally.delays = MONTHS - 1)

\* a counted run whose year argument is not a number has returned without a
\* fetch and without a delay
C28_ReturnedWithoutFetch ==
  /\ route = "monthly" /\ year.nan /\ pc = "done"
  /\ tally = ZeroTally

----------------------------------------------------------------------------
(* Properties of the OAuth callback *)

\* the request's session is that of the user the state parameter names
SessionOfState == SessionUserId(request.session) = request.state

\* C29: the callback stores a token under a user id only when the request has no
\* error parameter, has code, state and realmId, the id is the state parameter
\* and that of a user, and the request's session belongs to that user; with no
\* session, or that of another user, nothing is stored.
C29_SavedOnlyForSessionUser ==
  request.handler = "callback" =>
    \A id \in CallbackIds :
      tokens[id] # JsNull =>
        /\ ~Truthy(request.error)
        /\ Truthy(request.code) /\ Truthy(request.realmId)
        /\ request.state = JsStr(id)
        /\ Truthy(users[id])
        /\ SessionOfState

\* a request without a session has stored a token under the user its state names
C29_SavedWithoutSession ==
  /\ request.handler = "callback"
  /\ request.session = JsNull
  /\ request.state = JsStr(U1)
  /\ tokens[U1] = TokenOf(JsStr(ACCESS_TOKEN), JsStr(REALM_ID))
  /\ response = RedirectSuccess

----------------------------------------------------------------------------
(* Properties of the profile update *)

\* the password hash of the row of id is not the one the table started with
HashChanged(id) ==
  /\ Truthy(users[id])
  /\ Get(users[id], "passwordHash") # Get(ProfileUsers[id], "passwordHash")

\* the handler rejected the request
Rejected == step = "responded" /\ response.status \in {401, 400, 404}

\* C30: the password hash of a user changes only when the request has the
\* session of that user and a currentPassword whose hash is the stored one; a
\* request answered 401, 400 or 404 leaves every name and every hash as it was.
C30_PasswordNeedsCurrent ==
  request.handler = "profile" =>
    /\ \A id \in CallbackIds :
         HashChanged(id) =>
           /\ SessionUserId(request.session) = JsStr(id)
           /\ Truthy(request.currentPassword)
           /\ Get(ProfileUsers[id], "passwordHash") = JsStr(Hash(request.currentPassword.s))
    /\ Rejected => users = ProfileUsers

\* a request with the current password has changed the hash and the name of its
\* user
C30_PasswordChanged ==
  /\ request.handler = "profile"
  /\ request.session = SessionOf(U1)
  /\ request.currentPassword = JsStr(PASSWORD_1)
  /\ users[U1] = ProfileRow(NAME_ZED, JsStr(Hash(PASSWORD_NEW)))
  /\ users[U2] = ProfileUsers[U2]
  /\ response = JsonOk

====
